---- MODULE Spec2Model ----
(***************************************************************************)
(* State-machine model of the statevector engine (FPGASimulator) of        *)
(* src/simulator/fpga_simulator.py, the gate matrices of                   *)
(* src/simulator/quantum_gates.py, the circuit builder (QuantumCircuit) of *)
(* src/simulator/circuit.py, the GHZ benchmark circuit of                  *)
(* src/benchmarks/benchmark.py, the Steane decoder, error simulator and    *)
(* feedback loop of src/qec and the observable matrices of the device      *)
(* adapter of src/pennylane_device/fpga_device.py.                         *)
(*                                                                         *)
(* Numbers.  A complex128 amplitude is modelled exactly: an amplitude      *)
(* vector is a vector of Gaussian integers <<re, im>> together with one    *)
(* positive integer den2, and stands for  amp[i] / sqrt(den2).  A gate     *)
(* matrix carries its own den2 in the same way (H is [[1,1],[1,-1]] over   *)
(* sqrt(2)).  Every vector is kept in lowest terms (Canon), so two records *)
(* are equal exactly when the vectors they stand for are equal.            *)
(*                                                                         *)
(* Rounding.  The exact amplitudes leave floating-point rounding out.  It  *)
(* is modelled beside them, in statevector_fp, for the 1-qubit engine of   *)
(* SpecFloat: binary64 and binary32 values with round-to-nearest-even      *)
(* arithmetic, their mantissas held as sequences of limbs.                 *)
(*                                                                         *)
(* Library.  The rotation gates and T have entries that no single den2    *)
(* covers, so the gate library is also modelled by columns (ColMatrix),    *)
(* each column with its own den2, for angles theta given by an integer     *)
(* pair (c, s) with cos(theta/2) = c / sqrt(c^2 + s^2).                    *)
(*                                                                         *)
(* History.  The variable replays is not a field of the program: it counts *)
(* the replays that measure has started and completed since the last       *)
(* reset of a QuantumCircuit.                                              *)
(*                                                                         *)
(* use_jax.  The jax and the numpy branches of every method compute the    *)
(* same values on the arrays modelled here (arrays with fewer columns than *)
(* 2^k, where the backends differ on out-of-bounds reads, are left out),   *)
(* so the flag is not a variable.                                          *)
(***************************************************************************)
EXTENDS Integers, Sequences, FiniteSets, TLC

\* Largest qubit count of the engines explored.
MaxQubits == 2

\* Number of engine calls explored after construction.
MaxCalls == 3

\* Largest number of entries a QuantumCircuit records.
MaxGates == 2

\* Largest qubit count a caller asks the constructor for.
MaxRequested == 17

\* The random draws explored by measure are u = k / UDen for k in 0..UDen-1.
UDen == 4

VARIABLES
    num_qubits,     \* FPGASimulator.num_qubits
    statevector,    \* FPGASimulator.statevector: [amp, den2]
    pc,             \* "ready": the caller makes its next call;
                    \* "returned": a call has just returned or raised
    call,           \* the call that has just returned: its arguments, the
                    \* statevector before it, what it returned or raised
    prev,           \* <<qubit, result>> when the call completed before this
                    \* one was a measure that returned, <<>> otherwise
    calls,          \* number of calls made so far
    gates,          \* QuantumCircuit.gates: the recorded (gate, qubits) entries
    measurements,   \* QuantumCircuit.measurements: the recorded <<qubit, result>>
    executed,       \* whether the QuantumCircuit has the attribute _executed
    ret,            \* the value the call that has just returned gave back
    handle,         \* the array a get_statevector call gave to the caller
    statevector_fp, \* FPGASimulator.statevector as the floating-point arithmetic
                    \* of the build holds it: [precision, fused, amp]
    errors,         \* ErrorSimulator.errors: [x, z], the qubits in error
    stats,          \* QECFeedbackLoop.stats: the three counters
    replays         \* history: the QuantumCircuit.measure calls since construction or
                    \* the last QuantumCircuit.reset that entered self.execute, and
                    \* those in which it returned: [started, completed]

vars == <<num_qubits, statevector, pc, call, prev, calls,
          gates, measurements, executed, ret, handle, statevector_fp,
          errors, stats, replays>>

----------------------------------------------------------------------------
\* Complex arithmetic on Gaussian integers <<re, im>>.

C(re, im) == <<re, im>>

CZero == C(0, 0)

COne == C(1, 0)

CAdd(a, b) == C(a[1] + b[1], a[2] + b[2])

CMul(a, b) == C(a[1] * b[1] - a[2] * b[2], a[1] * b[2] + a[2] * b[1])

\* np.abs(z) ** 2
Abs2(a) == a[1] * a[1] + a[2] * a[2]

AbsInt(x) == IF x < 0 THEN -x ELSE x

Pow2(k) == 2 ^ k

\* (i >> q) & 1 for q >= 0
Bit(i, q) == (i \div Pow2(q)) % 2

RECURSIVE SumRange(_, _, _)
\* sum of f[x] for x = lo, lo + 1, ..., hi
SumRange(f, lo, hi) ==
    IF lo > hi THEN 0 ELSE f[lo] + SumRange(f, lo + 1, hi)

RECURSIVE CSumRange(_, _, _)
\* complex sum of f[x] for x = lo, lo + 1, ..., hi
CSumRange(f, lo, hi) ==
    IF lo > hi THEN CZero ELSE CAdd(f[lo], CSumRange(f, lo + 1, hi))

----------------------------------------------------------------------------
\* Gate matrices: [rows, cols, den2, m], entry (r, c) is m[r+1][c+1]/sqrt(den2).

Matrix(rows, cols, den2, m) == [rows |-> rows, cols |-> cols, den2 |-> den2, m |-> m]

Entry(g, r, c) == g.m[r + 1][c + 1]

R(x) == C(x, 0)

I == Matrix(2, 2, 1, << <<R(1), R(0)>>, <<R(0), R(1)>> >>)

X == Matrix(2, 2, 1, << <<R(0), R(1)>>, <<R(1), R(0)>> >>)

Y == Matrix(2, 2, 1, << <<R(0), C(0, -1)>>, <<C(0, 1), R(0)>> >>)

Z == Matrix(2, 2, 1, << <<R(1), R(0)>>, <<R(0), R(-1)>> >>)

H == Matrix(2, 2, 2, << <<R(1), R(1)>>, <<R(1), R(-1)>> >>)

S == Matrix(2, 2, 1, << <<R(1), R(0)>>, <<R(0), C(0, 1)>> >>)

CNOT ==
    Matrix(4, 4, 1,
           << <<R(1), R(0), R(0), R(0)>>,
              <<R(0), R(1), R(0), R(0)>>,
              <<R(0), R(0), R(0), R(1)>>,
              <<R(0), R(0), R(1), R(0)>> >>)

CZ ==
    Matrix(4, 4, 1,
           << <<R(1), R(0), R(0), R(0)>>,
              <<R(0), R(1), R(0), R(0)>>,
              <<R(0), R(0), R(1), R(0)>>,
              <<R(0), R(0), R(0), R(-1)>> >>)

SWAP ==
    Matrix(4, 4, 1,
           << <<R(1), R(0), R(0), R(0)>>,
              <<R(0), R(0), R(1), R(0)>>,
              <<R(0), R(1), R(0), R(0)>>,
              <<R(0), R(0), R(0), R(1)>> >>)

\* Caller-supplied arrays that are not well-formed gates: apply_gate takes any
\* array (gate_matrix: Union[np.ndarray, jnp.ndarray]).
\* A 3 x 3 array (dimension not a power of two).
Bad3x3 ==
    Matrix(3, 3, 1,
           << <<R(0), R(1), R(0)>>,
              <<R(1), R(0), R(0)>>,
              <<R(0), R(0), R(1)>> >>)

\* A 2 x 4 array (not square).
Bad2x4 ==
    Matrix(2, 4, 1,
           << <<R(0), R(1), R(0), R(0)>>,
              <<R(1), R(0), R(0), R(0)>> >>)

GateNames == {"X", "H", "CNOT", "Bad3x3", "Bad2x4"}

Gate(name) ==
    CASE name = "I" -> I
      [] name = "X" -> X
      [] name = "Y" -> Y
      [] name = "Z" -> Z
      [] name = "H" -> H
      [] name = "S" -> S
      [] name = "CNOT" -> CNOT
      [] name = "CZ" -> CZ
      [] name = "SWAP" -> SWAP
      [] name = "Bad3x3" -> Bad3x3
      [] name = "Bad2x4" -> Bad2x4

----------------------------------------------------------------------------
\* The engine: FPGASimulator.

\* self.dimension = 2 ** num_qubits
dimension == Pow2(num_qubits)

Indices == 0 .. dimension - 1

StateVec(amp, den2) == [amp |-> amp, den2 |-> den2]

\* The array f with its elements computed: numpy computes the elements of an
\* array once, when the array is made.  (TLC evaluates a function expression
\* anew at each application until the function is compared.)
Array(f) == IF f = f THEN f ELSE f

\* The vector amp / sqrt(den2) in lowest terms: the largest g that divides
\* every component with g * g dividing den2 is taken out; the zero vector
\* has den2 = 1.
Canon(elements, den2) ==
    LET amp == Array(elements)
        comps == {AbsInt(amp[i][1]) : i \in DOMAIN amp} \cup {AbsInt(amp[i][2]) : i \in DOMAIN amp}
        mx == CHOOSE c \in comps : \A d \in comps : d <= c
        Divides(g) == /\ \A i \in DOMAIN amp : amp[i][1] % g = 0 /\ amp[i][2] % g = 0
                      /\ den2 % (g * g) = 0
    IN IF mx = 0 THEN StateVec(amp, 1)
       ELSE LET g == CHOOSE d \in 1..mx : Divides(d) /\ \A e \in (d + 1)..mx : ~Divides(e)
            IN StateVec([i \in DOMAIN amp |-> C(amp[i][1] \div g, amp[i][2] \div g)],
                        den2 \div (g * g))

\* zeros(dimension) with statevector[0] = 1.0 + 0j
ZeroState == StateVec([i \in Indices |-> IF i = 0 THEN COne ELSE CZero], 1)

\* np.sum(np.abs(state) ** 2) as a numerator over sv.den2
NormSqNum(sv) == SumRange([i \in Indices |-> Abs2(sv.amp[i])], 0, dimension - 1)

\* int(np.log2(gate_size)) for gate_size >= 1
Log2Int(x) == CHOOSE k \in 0..16 : Pow2(k) <= x /\ x < Pow2(k + 1)

\* sorted(qubit_indices)
Sorted(qs) ==
    LET vals == {qs[j] : j \in 1..Len(qs)}
        Count(t, v) == Cardinality({j \in 1..Len(qs) : t[j] = v})
    IN CHOOSE t \in [1..Len(qs) -> vals] :
          /\ \A j, k \in 1..Len(qs) : j < k => t[j] <= t[k]
          /\ \A v \in vals : Count(t, v) = Count(qs, v)

\* idx & ~affected_mask, where affected_mask has bit q set for each q listed
Unaffected(idx, qubit_indices) ==
    LET mask == {qubit_indices[j] : j \in 1..Len(qubit_indices)}
    IN SumRange([b \in 0 .. num_qubits - 1 |->
                    IF b \in mask THEN 0 ELSE Bit(idx, b) * Pow2(b)],
                0, num_qubits - 1)

\* in_affected / out_affected: bit bit_pos of the result is bit q of idx,
\* for q running over sorted(qubit_indices) and bit_pos = 0, 1, ...
AffectedBits(idx, sorted_indices) ==
    SumRange([p \in 1 .. Len(sorted_indices) |->
                 Bit(idx, sorted_indices[p]) * Pow2(p - 1)],
             1, Len(sorted_indices))

\* _expand_gate_to_full_space without the comparison of the unaffected bits:
\* every entry of full_gate is taken from the gate.
expand_gate_ignoring_unaffected_bits(gate, qubit_indices) ==
    LET srt == Sorted(qubit_indices)
    IN [out_idx \in Indices |->
          [in_idx \in Indices |->
              Entry(gate, AffectedBits(out_idx, srt), AffectedBits(in_idx, srt))]]

\* full_gate[out_idx, in_idx]
expand_gate_to_full_space(gate, qubit_indices) ==
    LET srt == Sorted(qubit_indices)
        una == Array([i \in Indices |-> Unaffected(i, qubit_indices)])
        aff == Array([i \in Indices |-> AffectedBits(i, srt)])
    IN [out_idx \in Indices |->
          [in_idx \in Indices |->
              IF una[in_idx] # una[out_idx] THEN CZero
              ELSE Entry(gate, aff[out_idx], aff[in_idx])]]

\* np.dot(full_gate, statevector), the entries of full_gate being over
\* sqrt(gate_den2)
Dot(full_gate, gate_den2, sv) ==
    Canon([out_idx \in Indices |->
              CSumRange([in_idx \in Indices |->
                            CMul(full_gate[out_idx][in_idx], sv.amp[in_idx])],
                        0, dimension - 1)],
          gate_den2 * sv.den2)

\* The outcome of a call: the exception raised ("none" when it returns) and
\* the engine's statevector afterwards.
Outcome(err, sv) == [err |-> err, sv |-> sv]

\* apply_gate with the state cleared when a call is rejected, in place of
\* being left as it was.
apply_gate_resets_on_error(sv, gate_matrix, qubit_indices) ==
    LET gate_size == gate_matrix.rows
        num_affected_qubits == Log2Int(gate_size)
    IN IF Len(qubit_indices) # num_affected_qubits
       THEN Outcome("ValueError", StateVec([i \in Indices |-> IF i = 0 THEN COne ELSE CZero], 1))
       ELSE IF \E j \in 1..Len(qubit_indices) : qubit_indices[j] < 0
       THEN Outcome("ValueError", StateVec([i \in Indices |-> IF i = 0 THEN COne ELSE CZero], 1))
       ELSE Outcome("none",
                    Dot(expand_gate_to_full_space(gate_matrix, qubit_indices),
                        gate_matrix.den2, sv))

\* FPGASimulator.apply_gate.  1 << q raises ValueError (negative shift count)
\* for q < 0, inside _expand_gate_to_full_space and before the assignment to
\* self.statevector.
apply_gate(sv, gate_matrix, qubit_indices) ==
    LET gate_size == gate_matrix.rows
        num_affected_qubits == Log2Int(gate_size)
    IN IF Len(qubit_indices) # num_affected_qubits
       THEN Outcome("ValueError", sv)
       ELSE IF \E j \in 1..Len(qubit_indices) : qubit_indices[j] < 0
       THEN Outcome("ValueError", sv)
       ELSE Outcome("none",
                    Dot(expand_gate_to_full_space(gate_matrix, qubit_indices),
                        gate_matrix.den2, sv))

\* reset assigning statevector[0] = 1.0 + 0j without making a new array of
\* zeros.
reset_first_amplitude_only == [statevector EXCEPT !.amp[0] = COne]

\* FPGASimulator.reset
reset == ZeroState

\* int(np.random.random() > prob_0), the draw being u_num / UDen and prob_0
\* being prob_0_num / den2
draw_result(u_num, prob_0_num, den2) ==
    IF u_num * den2 > prob_0_num * UDen THEN 1 ELSE 0

\* norm > 1e-10 for norm = sqrt(norm2_num / den2), that is
\* norm2_num * 10^20 > den2, computed without leaving 32-bit integers:
\* for integers, x * 10^5 * 10^15 > d exactly when x * 10^5 > floor(d / 10^15).
norm_above_threshold(norm2_num, den2) ==
    norm2_num * 100000 > ((den2 \div 100000) \div 100000) \div 100000

\* The outcome of measure: the exception raised, the statevector afterwards,
\* the returned bit (-1 when it raises) and whether the else branch (norm not
\* above 1e-10, self.reset()) was taken.
MeasureOutcome(err, sv, result, below) ==
    [err |-> err, sv |-> sv, result |-> result, below |-> below]

\* prob_0 as a numerator over sv.den2
prob_0_of(sv, qubit) ==
    SumRange([i \in Indices |-> IF Bit(i, qubit) = 0 THEN Abs2(sv.amp[i]) ELSE 0],
             0, dimension - 1)

\* FPGASimulator.measure with the random draw u_num / UDen
measure(sv, qubit, u_num) ==
    IF qubit < 0 \/ qubit >= num_qubits
    THEN MeasureOutcome("ValueError", sv, -1, FALSE)
    ELSE LET prob_0 == prob_0_of(sv, qubit)
             result == draw_result(u_num, prob_0, sv.den2)
             new_state == [i \in Indices |->
                              IF Bit(i, qubit) = result THEN sv.amp[i] ELSE CZero]
             norm2 == SumRange([i \in Indices |-> Abs2(new_state[i])], 0, dimension - 1)
         IN IF norm_above_threshold(norm2, sv.den2)
            THEN MeasureOutcome("none", Canon(new_state, norm2), result, FALSE)
            ELSE MeasureOutcome("none", reset, result, TRUE)

\* What a caller holds after get_statevector: the amplitudes of the array
\* it was given, and whether that array is the engine's own (a write to a
\* shared array is a write to self.statevector).
ReturnedArray(data, shared) == [data |-> data, shared |-> shared]

\* The caller holds no returned array.
NoHandle == <<>>

\* No value: the call raised, or returns None.
NoValue == <<>>

\* get_statevector handing out self.statevector itself, without a copy.
get_statevector_without_copy(sv) == ReturnedArray(sv, TRUE)

\* FPGASimulator.get_statevector: np.array(self.statevector) for a jax array,
\* self.statevector.copy() for a numpy array; a new array either way.
get_statevector(sv) == ReturnedArray(sv, FALSE)

\* The outcome of a query: the exception raised, the engine's statevector
\* afterwards and the value returned.
QueryOutcome(err, sv, value) == [err |-> err, sv |-> sv, value |-> value]

\* Probabilities num[i] / den.
Probabilities(num, den) == [num |-> num, den |-> den]

\* get_probabilities computing the squares into self.statevector itself.
get_probabilities_in_place(sv) ==
    LET num == [i \in Indices |-> Abs2(sv.amp[i])]
    IN QueryOutcome("none", Canon([i \in Indices |-> R(num[i])], sv.den2 * sv.den2),
                    Probabilities(num, sv.den2))

\* FPGASimulator.get_probabilities: np.abs(state_array) ** 2 on the array
\* get_statevector returns
get_probabilities(sv) ==
    LET state_array == get_statevector(sv).data
    IN QueryOutcome("none", sv,
                    Probabilities([i \in Indices |-> Abs2(state_array.amp[i])],
                                  state_array.den2))

CConj(a) == C(a[1], -a[2])

\* The real number num / (den * sqrt(obs_den2)).
Expectation(num, den, obs_den2) == [num |-> num, den |-> den, obs_den2 |-> obs_den2]

\* (np.conj(state_array) @ observable) @ state_array for an observable of
\* dimension rows whose first dimension columns are read.
Sandwich(state_array, observable) ==
    LET left == [j \in Indices |->
                    CSumRange([i \in Indices |->
                                  CMul(CConj(state_array.amp[i]), Entry(observable, i, j))],
                              0, dimension - 1)]
    IN CSumRange([j \in Indices |-> CMul(left[j], state_array.amp[j])], 0, dimension - 1)

\* get_expectation_value with the first product's shape check only.
get_expectation_value_rows_only(sv, observable) ==
    LET state_array == get_statevector(sv).data
    IN IF observable.rows # dimension
       THEN QueryOutcome("ValueError", sv, NoValue)
       ELSE QueryOutcome("none", sv,
                         Expectation(Sandwich(state_array, observable)[1],
                                     state_array.den2, observable.den2))

\* get_expectation_value without the observable: conj(state) @ state.
get_expectation_value_of_identity(sv, observable) ==
    LET state_array == get_statevector(sv).data
    IN IF observable.rows # dimension \/ observable.cols # dimension
       THEN QueryOutcome("ValueError", sv, NoValue)
       ELSE QueryOutcome("none", sv,
                         Expectation(NormSqNum(state_array), state_array.den2,
                                     observable.den2))

\* FPGASimulator.get_expectation_value for a two-dimensional observable:
\* float(np.real(np.conj(state_array) @ observable @ state_array)).  The
\* code has no check of its own; the first matrix product raises when the
\* observable does not have dimension rows, the second when it does not have
\* dimension columns (ValueError from numpy, TypeError from jax).
get_expectation_value(sv, observable) ==
    LET state_array == get_statevector(sv).data
    IN IF observable.rows # dimension
       THEN QueryOutcome("ValueError", sv, NoValue)
       ELSE IF observable.cols # dimension
       THEN QueryOutcome("ValueError", sv, NoValue)
       ELSE QueryOutcome("none", sv,
                         Expectation(Sandwich(state_array, observable)[1],
                                     state_array.den2, observable.den2))

\* The outcome of the constructor: the exception raised, and the fields of
\* the engine constructed (num_qubits 0 and no statevector when it raises).
Constructed(err, n, sv) == [err |-> err, num_qubits |-> n, sv |-> sv]

\* The constructor with the upper limit off by one: 16 qubits rejected.
init_rejecting_sixteen(n) ==
    IF n < 1 \/ n >= 16
    THEN Constructed("ValueError", 0, NoValue)
    ELSE Constructed("none", n,
                     StateVec([i \in 0 .. Pow2(n) - 1 |-> IF i = 0 THEN COne ELSE CZero], 1))

\* FPGASimulator.__init__(num_qubits)
init(n) ==
    IF n < 1 \/ n > 16
    THEN Constructed("ValueError", 0, NoValue)
    ELSE Constructed("none", n,
                     StateVec([i \in 0 .. Pow2(n) - 1 |-> IF i = 0 THEN COne ELSE CZero], 1))

----------------------------------------------------------------------------
\* Floating point: the arithmetic numpy and jax compute the amplitudes with.
\* A mantissa of 53 bits and the squares of such mantissas do not fit the
\* integers of the model checker, so a natural number is a sequence of
\* limbs, least significant first, without a leading zero limb.

\* Width of a limb in bits; sums of products of two limbs stay below 2^31.
LimbBits == 12

Limb == 2 ^ LimbBits

\* limbs without its zero limbs of highest index
Trim(limbs) ==
    LET nz == {i \in 1 .. Len(limbs) : limbs[i] # 0}
    IN IF nz = {} THEN <<>>
       ELSE SubSeq(limbs, 1, CHOOSE i \in nz : \A j \in nz : j <= i)

RECURSIVE Carry(_, _, _)
\* The limbs of c + raw[i] + raw[i + 1] * Limb + ..., raw holding any
\* natural numbers.
Carry(raw, i, c) ==
    IF i > Len(raw)
    THEN IF c = 0 THEN <<>> ELSE <<c % Limb>> \o Carry(raw, i, c \div Limb)
    ELSE <<(raw[i] + c) % Limb>> \o Carry(raw, i + 1, (raw[i] + c) \div Limb)

LimbAt(a, i) == IF i >= 1 /\ i <= Len(a) THEN a[i] ELSE 0

BigFromNat(k) == Trim(Carry(<<k>>, 1, 0))

BigAdd(a, b) ==
    LET n == IF Len(a) > Len(b) THEN Len(a) ELSE Len(b)
    IN Trim(Carry([i \in 1 .. n |-> LimbAt(a, i) + LimbAt(b, i)], 1, 0))

RECURSIVE Borrow(_, _, _, _)
Borrow(a, b, i, br) ==
    IF i > Len(a) THEN <<>>
    ELSE LET t == a[i] - LimbAt(b, i) - br
         IN IF t < 0 THEN <<t + Limb>> \o Borrow(a, b, i + 1, 1)
            ELSE <<t>> \o Borrow(a, b, i + 1, 0)

\* a - b for a >= b
BigSub(a, b) == Trim(Borrow(a, b, 1, 0))

BigMul(a, b) ==
    IF a = <<>> \/ b = <<>> THEN <<>>
    ELSE Trim(Carry([k \in 1 .. Len(a) + Len(b) - 1 |->
                       SumRange([i \in 1 .. Len(a) |-> a[i] * LimbAt(b, k - i + 1)],
                                1, Len(a))],
                    1, 0))

\* a < b
BigLess(a, b) ==
    IF Len(a) # Len(b) THEN Len(a) < Len(b)
    ELSE \E i \in 1 .. Len(a) :
            a[i] < b[i] /\ \A j \in i + 1 .. Len(a) : a[j] = b[j]

\* Number of bits of a: 0 for 0, k for 2^(k-1) <= a < 2^k.
BitLength(a) ==
    IF a = <<>> THEN 0
    ELSE (Len(a) - 1) * LimbBits
         + (CHOOSE k \in 1 .. LimbBits : 2 ^ (k - 1) <= a[Len(a)] /\ a[Len(a)] < 2 ^ k)

\* Bit i of a, bit 0 the least significant.
BigBit(a, i) ==
    IF i < 0 THEN 0 ELSE (LimbAt(a, i \div LimbBits + 1) \div 2 ^ (i % LimbBits)) % 2

\* The number whose bit i is bits[i] for i in 0 .. n - 1.
FromBits(bits, n) ==
    Trim([t \in 1 .. (n + LimbBits - 1) \div LimbBits |->
            SumRange([j \in 0 .. LimbBits - 1 |->
                        IF (t - 1) * LimbBits + j < n
                        THEN bits[(t - 1) * LimbBits + j] * 2 ^ j
                        ELSE 0],
                     0, LimbBits - 1)])

\* a * 2^k
ShiftLeft(a, k) ==
    LET n == BitLength(a) + k
    IN IF a = <<>> THEN <<>> ELSE FromBits([i \in 0 .. n - 1 |-> BigBit(a, i - k)], n)

\* floor(a / 2^k)
ShiftRight(a, k) ==
    LET n == BitLength(a) - k
    IN IF n <= 0 THEN <<>> ELSE FromBits([i \in 0 .. n - 1 |-> BigBit(a, i + k)], n)

\* The real number (-1)^neg * mant * 2^exp.  A floating-point number of
\* precision p has a mantissa of exactly p bits, or is zero; the sign of a
\* zero is not kept (-0.0 == 0.0), and the exponent range is not modelled:
\* the amplitudes of a few gates stay far from overflow and underflow.
Float(neg, mant, exp) == [neg |-> neg, mant |-> mant, exp |-> exp]

FloatZero == Float(FALSE, <<>>, 0)

\* x rounded to p bits, to nearest, ties to even: the rounding of every
\* IEEE 754 operation.
Round(p, x) ==
    LET k == BitLength(x.mant) - p
    IN IF x.mant = <<>> THEN FloatZero
       ELSE IF k <= 0 THEN Float(x.neg, ShiftLeft(x.mant, -k), x.exp + k)
       ELSE LET q == ShiftRight(x.mant, k)
                half == BigBit(x.mant, k - 1) = 1
                sticky == \E i \in 0 .. k - 2 : BigBit(x.mant, i) = 1
                odd == BigBit(x.mant, k) = 1
                r == IF half /\ (sticky \/ odd) THEN BigAdd(q, <<1>>) ELSE q
            IN IF BitLength(r) > p
               THEN Float(x.neg, ShiftRight(r, 1), x.exp + k + 1)
               ELSE Float(x.neg, r, x.exp + k)

\* x * y, not rounded
ExactProduct(x, y) == Float(x.neg # y.neg, BigMul(x.mant, y.mant), x.exp + y.exp)

\* x + y, not rounded
ExactSum(x, y) ==
    IF x.mant = <<>> THEN y
    ELSE IF y.mant = <<>> THEN x
    ELSE LET e == IF x.exp < y.exp THEN x.exp ELSE y.exp
             a == ShiftLeft(x.mant, x.exp - e)
             b == ShiftLeft(y.mant, y.exp - e)
         IN IF x.neg = y.neg THEN Float(x.neg, BigAdd(a, b), e)
            ELSE IF BigLess(a, b) THEN Float(y.neg, BigSub(b, a), e)
            ELSE Float(x.neg, BigSub(a, b), e)

FNeg(x) == IF x.mant = <<>> THEN x ELSE [x EXCEPT !.neg = ~x.neg]

FAdd(p, x, y) == Round(p, ExactSum(x, y))

FMul(p, x, y) == Round(p, ExactProduct(x, y))

\* fused multiply-add: a * b + c rounded once
FMulAdd(p, a, b, c) == Round(p, ExactSum(ExactProduct(a, b), c))

\* The integer k as a floating-point number.
FromInt(p, k) == Round(p, Float(k < 0, BigFromNat(AbsInt(k)), 0))

RECURSIVE SqrtBits(_, _, _)
\* The largest c with c^2 <= n among r + (a multiple of 1 below 2^(bit+1)).
SqrtBits(n, r, bit) ==
    IF bit < 0 THEN r
    ELSE LET c == BigAdd(r, ShiftLeft(<<1>>, bit))
         IN IF BigLess(n, BigMul(c, c)) THEN SqrtBits(n, r, bit - 1)
            ELSE SqrtBits(n, c, bit - 1)

\* sqrt(x) correctly rounded, x > 0: the integer square root of the mantissa
\* scaled to twice the precision, with one more bit telling whether it is
\* exact.
FSqrt(p, x) ==
    LET s == IF (x.exp - (p + 2)) % 2 = 0 THEN p + 2 ELSE p + 3
        n == ShiftLeft(x.mant, s)
        r == SqrtBits(n, <<>>, (BitLength(n) + 1) \div 2)
        sticky == IF BigMul(r, r) = n THEN <<>> ELSE <<1>>
    IN Round(p, Float(FALSE, BigAdd(ShiftLeft(r, 1), sticky), (x.exp - s) \div 2 - 1))

RECURSIVE DivBits(_, _, _, _)
\* The largest c with c * d <= n among q + (a multiple of 1 below 2^(bit+1)).
DivBits(n, d, q, bit) ==
    IF bit < 0 THEN q
    ELSE LET c == BigAdd(q, ShiftLeft(<<1>>, bit))
         IN IF BigLess(n, BigMul(c, d)) THEN DivBits(n, d, q, bit - 1)
            ELSE DivBits(n, d, c, bit - 1)

\* x / y correctly rounded, y # 0
FDiv(p, x, y) ==
    LET s == p + 2
        n == ShiftLeft(x.mant, s)
        q == DivBits(n, y.mant, <<>>, s + 1)
        sticky == IF BigMul(q, y.mant) = n THEN <<>> ELSE <<1>>
    IN IF x.mant = <<>> THEN FloatZero
       ELSE Round(p, Float(x.neg # y.neg, BigAdd(ShiftLeft(q, 1), sticky),
                           x.exp - y.exp - s - 1))

\* Bits of precision of the parts of a complex128: IEEE 754 binary64.
Binary64 == 53

\* Bits of precision of the parts of a complex64, IEEE 754 binary32: what
\* jnp.zeros(..., dtype=jnp.complex128) makes unless jax_enable_x64 is set,
\* and src/ does not set it.
Binary32 == 24

\* 1 / np.sqrt(2)
InvSqrtTwo == FDiv(Binary64, FromInt(Binary64, 1), FSqrt(Binary64, FromInt(Binary64, 2)))

\* Entry z / sqrt(den2) of a gate matrix without the factor 1 / np.sqrt(2).
gate_entry_unscaled(z, den2) == <<FromInt(Binary64, z[1]), FromInt(Binary64, z[2])>>

\* Entry z / sqrt(den2) of a gate matrix as quantum_gates.py makes it, a
\* complex128: np.array(..., dtype=np.complex128) of integer entries for
\* den2 = 1, and (1 / np.sqrt(2)) * np.array([[1, 1], [1, -1]]) for H, the
\* only matrix of the model with den2 = 2.
gate_entry_complex128(z, den2) ==
    IF den2 = 1
    THEN <<FromInt(Binary64, z[1]), FromInt(Binary64, z[2])>>
    ELSE <<FMul(Binary64, InvSqrtTwo, FromInt(Binary64, z[1])),
           FMul(Binary64, InvSqrtTwo, FromInt(Binary64, z[2]))>>

\* full_gate in the precision of the engine's arrays: the entries the loops
\* of _expand_gate_to_full_space copy into an array of the engine's dtype.
full_gate_fp(precision, gate, qubit_indices) ==
    LET full == Array(expand_gate_to_full_space(gate, qubit_indices))
    IN Array([out_idx \in Indices |->
                [in_idx \in Indices |->
                    LET e == gate_entry_complex128(full[out_idx][in_idx], gate.den2)
                    IN <<Round(precision, e[1]), Round(precision, e[2])>>]])

\* acc + g * s on complex numbers.  How a build evaluates it is not fixed by
\* the source: with every product and sum rounded, or with fused
\* multiply-adds.
MultiplyAdd(p, fused, acc, g, s) ==
    IF fused
    THEN <<FMulAdd(p, FNeg(g[2]), s[2], FMulAdd(p, g[1], s[1], acc[1])),
           FMulAdd(p, g[2], s[1], FMulAdd(p, g[1], s[2], acc[2]))>>
    ELSE <<FAdd(p, acc[1], FAdd(p, FMul(p, g[1], s[1]), FNeg(FMul(p, g[2], s[2])))),
           FAdd(p, acc[2], FAdd(p, FMul(p, g[1], s[2]), FMul(p, g[2], s[1])))>>

RECURSIVE DotRowFp(_, _, _, _, _, _)
\* acc + row[k] * amp[k] + row[k + 1] * amp[k + 1] + ...
DotRowFp(p, fused, row, amp, k, acc) ==
    IF k >= dimension THEN acc
    ELSE DotRowFp(p, fused, row, amp, k + 1, MultiplyAdd(p, fused, acc, row[k], amp[k]))

\* FPGASimulator.apply_gate in floating point, for a call that does not
\* raise: np.dot / jnp.dot of full_gate and self.statevector.
apply_gate_fp(fsv, gate_matrix, qubit_indices) ==
    LET full == full_gate_fp(fsv.precision, gate_matrix, qubit_indices)
    IN [fsv EXCEPT !.amp =
           Array([out_idx \in Indices |->
                     DotRowFp(fsv.precision, fsv.fused, full[out_idx], fsv.amp, 0,
                              <<FloatZero, FloatZero>>)])]

----------------------------------------------------------------------------
\* The circuit builder: QuantumCircuit, as far as the GHZ benchmark uses it.

GateEntry(gate, qubits) == [gate |-> gate, qubits |-> qubits]

\* QuantumCircuit.apply storing the entry before it looks at the indices.
circuit_apply_recording_first(gate_list, gate, qubit_list) ==
    IF \E j \in 1..Len(qubit_list) : qubit_list[j] < 0 \/ qubit_list[j] >= num_qubits
    THEN [err |-> "ValueError",
          gate_list |-> Append(gate_list, [gate |-> gate, qubits |-> qubit_list])]
    ELSE [err |-> "none",
          gate_list |-> Append(gate_list, [gate |-> gate, qubits |-> qubit_list])]

\* QuantumCircuit.apply: the recorded list afterwards, or ValueError
circuit_apply(gate_list, gate, qubit_list) ==
    IF \E j \in 1..Len(qubit_list) : qubit_list[j] < 0 \/ qubit_list[j] >= num_qubits
    THEN [err |-> "ValueError", gate_list |-> gate_list]
    ELSE [err |-> "none", gate_list |-> Append(gate_list, GateEntry(gate, qubit_list))]

RECURSIVE replay(_, _)
\* the loop of QuantumCircuit.execute: apply_gate for each recorded entry in
\* order; an exception ends the loop where it is raised
replay(sv, gate_list) ==
    IF gate_list = <<>> THEN Outcome("none", sv)
    ELSE LET r == apply_gate(sv, Gate(Head(gate_list).gate), Head(gate_list).qubits)
         IN IF r.err # "none" THEN r ELSE replay(r.sv, Tail(gate_list))

\* execute(reset=True) going on from the engine's current state, without
\* the reset.
execute_without_reset(gate_list) == replay(statevector, gate_list)

\* QuantumCircuit.execute(reset=True)
execute(gate_list) == replay(reset, gate_list)

\* QuantumCircuit.execute(reset=False)
execute_reset_false(sv, gate_list) == replay(sv, gate_list)

RECURSIVE ghz_cnots(_, _)
\* for i in range(num_qubits - 1): circuit.cnot(i, i + 1), from i on
ghz_cnots(gate_list, i) ==
    IF i >= num_qubits - 1 THEN gate_list
    ELSE ghz_cnots(circuit_apply(gate_list, "CNOT", <<i, i + 1>>).gate_list, i + 1)

\* benchmark_ghz_state: circuit.h(0), the cnot chain, circuit.execute()
ghz_circuit == ghz_cnots(circuit_apply(<<>>, "H", <<0>>).gate_list, 0)

\* The outcome of a QuantumCircuit call: the exception raised, the engine's
\* statevector, self.measurements and the presence of self._executed
\* afterwards, the value returned, and whether a measure took the branch
\* that resets.
CircuitOutcome(err, sv, ms, ex, value, below) ==
    [err |-> err, sv |-> sv, measurements |-> ms, executed |-> ex,
     value |-> value, below |-> below]

\* QuantumCircuit.measure clearing the engine when it rejects the index.
circuit_measure_resets_on_error(sv, replayed, gate_list, ms, ex, qubit, u_num) ==
    IF qubit < 0 \/ qubit >= num_qubits
    THEN CircuitOutcome("ValueError", reset, ms, ex, -1, FALSE)
    ELSE LET first == Len(gate_list) > 0 /\ ~ex
             e == IF first THEN replayed ELSE Outcome("none", sv)
         IN IF e.err # "none"
            THEN CircuitOutcome(e.err, e.sv, ms, ex, -1, FALSE)
            ELSE LET m == measure(e.sv, qubit, u_num)
                 IN CircuitOutcome(m.err, m.sv, Append(ms, <<qubit, m.result>>),
                                   ex \/ first, m.result, m.below)

\* QuantumCircuit.measure replaying the recorded gates whenever there are
\* any, whether or not _executed is set.
circuit_measure_replaying_always(sv, replayed, gate_list, ms, ex, qubit, u_num) ==
    IF qubit < 0 \/ qubit >= num_qubits
    THEN CircuitOutcome("ValueError", sv, ms, ex, -1, FALSE)
    ELSE LET first == Len(gate_list) > 0
             e == IF first THEN replayed ELSE Outcome("none", sv)
         IN IF e.err # "none"
            THEN CircuitOutcome(e.err, e.sv, ms, ex, -1, FALSE)
            ELSE LET m == measure(e.sv, qubit, u_num)
                 IN CircuitOutcome(m.err, m.sv, Append(ms, <<qubit, m.result>>),
                                   ex \/ first, m.result, m.below)

\* QuantumCircuit.measure with the random draw u_num / UDen; replayed is the
\* outcome of self.execute(reset=True), that is execute(gate_list), which
\* depends on neither qubit nor the draw.  An exception of execute leaves
\* measure before _executed is set.
circuit_measure(sv, replayed, gate_list, ms, ex, qubit, u_num) ==
    IF qubit < 0 \/ qubit >= num_qubits
    THEN CircuitOutcome("ValueError", sv, ms, ex, -1, FALSE)
    ELSE LET first == Len(gate_list) > 0 /\ ~ex
             e == IF first THEN replayed ELSE Outcome("none", sv)
         IN IF e.err # "none"
            THEN CircuitOutcome(e.err, e.sv, ms, ex, -1, FALSE)
            ELSE LET m == measure(e.sv, qubit, u_num)
                 IN CircuitOutcome(m.err, m.sv, Append(ms, <<qubit, m.result>>),
                                   ex \/ first, m.result, m.below)

RECURSIVE measure_all_from(_, _, _, _, _)
\* the loop of QuantumCircuit.measure_all from qubit on; so_far.value is
\* results, draws[q + 1] the random draw of measure(q)
measure_all_from(so_far, replayed, gate_list, qubit, draws) ==
    IF qubit >= num_qubits THEN so_far
    ELSE LET m == circuit_measure(so_far.sv, replayed, gate_list, so_far.measurements,
                                  so_far.executed, qubit, draws[qubit + 1])
         IN IF m.err # "none"
            THEN CircuitOutcome(m.err, m.sv, m.measurements, m.executed, NoValue,
                                so_far.below)
            ELSE measure_all_from(
                     CircuitOutcome("none", m.sv, m.measurements, m.executed,
                                    Append(so_far.value, m.value),
                                    so_far.below \/ m.below),
                     replayed, gate_list, qubit + 1, draws)

\* QuantumCircuit.measure_all
measure_all(sv, replayed, gate_list, ms, ex, draws) ==
    measure_all_from(CircuitOutcome("none", sv, ms, ex, <<>>, FALSE), replayed,
                     gate_list, 0, draws)

----------------------------------------------------------------------------
\* The state machine: a caller making one engine call after another.

CallRecord(op, gate, qubits, u, pre, result, err, below) ==
    [op |-> op, gate |-> gate, qubits |-> qubits, u |-> u, pre |-> pre,
     result |-> result, err |-> err, below |-> below]

NoCall == CallRecord("none", "-", <<>>, -1, ZeroState, -1, "none", FALSE)

\* No measure call has entered self.execute.
NoReplays == [started |-> 0, completed |-> 0]

\* A call of a QuantumCircuit method that has just returned: as CallRecord,
\* with self.measurements and the presence of self._executed before it.
CircuitCallRecord(op, qubits, u, pre, result, err, below, ms, ex) ==
    [op |-> op, gate |-> "-", qubits |-> qubits, u |-> u, pre |-> pre,
     result |-> result, err |-> err, below |-> below,
     measurements_before |-> ms, executed_before |-> ex]

\* The qubit indices a caller passes: every index of the engine, one below
\* the range and one above it.
QubitArgs == -1 .. num_qubits

\* The qubit_indices lists a caller passes, of one or two indices.
QubitLists == {<<q>> : q \in QubitArgs} \cup {<<a, b>> : a, b \in QubitArgs}

\* FPGASimulator.__init__ for 1 <= num_qubits <= MaxQubits
Init ==
    /\ num_qubits \in 1..MaxQubits
    /\ statevector = ZeroState
    /\ pc = "ready"
    /\ call = NoCall
    /\ prev = <<>>
    /\ calls = 0
    /\ gates = <<>>
    /\ measurements = <<>>
    /\ executed = FALSE
    /\ ret = NoValue
    /\ handle = NoHandle
    /\ statevector_fp = NoValue
    /\ errors = NoValue
    /\ stats = NoValue
    /\ replays = NoReplays

ApplyGate ==
    /\ pc = "ready"
    /\ calls < MaxCalls
    /\ \E g \in GateNames, qs \in QubitLists :
          LET r == apply_gate(statevector, Gate(g), qs)
          IN /\ statevector' = r.sv
             /\ call' = CallRecord("apply_gate", g, qs, -1, statevector, -1, r.err, FALSE)
    /\ pc' = "returned"
    /\ calls' = calls + 1
    /\ UNCHANGED <<num_qubits, prev, gates, measurements, executed, ret, handle,
                   statevector_fp, errors, stats, replays>>

Measure ==
    /\ pc = "ready"
    /\ calls < MaxCalls
    /\ \E q \in QubitArgs, u_num \in 0 .. UDen - 1 :
          LET r == measure(statevector, q, u_num)
          IN /\ statevector' = r.sv
             /\ call' = CallRecord("measure", "-", <<q>>, u_num, statevector,
                                   r.result, r.err, r.below)
    /\ pc' = "returned"
    /\ calls' = calls + 1
    /\ UNCHANGED <<num_qubits, prev, gates, measurements, executed, ret, handle,
                   statevector_fp, errors, stats, replays>>

Reset ==
    /\ pc = "ready"
    /\ calls < MaxCalls
    /\ statevector' = reset
    /\ call' = CallRecord("reset", "-", <<>>, -1, statevector, -1, "none", FALSE)
    /\ pc' = "returned"
    /\ calls' = calls + 1
    /\ UNCHANGED <<num_qubits, prev, gates, measurements, executed, ret, handle,
                   statevector_fp, errors, stats, replays>>

\* One run of the FPGA loop body of benchmark_ghz_state, on a circuit of
\* num_qubits qubits constructed for the run.
BenchmarkGHZ ==
    /\ pc = "ready"
    /\ calls < MaxCalls
    /\ LET r == execute(ghz_circuit)
       IN /\ statevector' = r.sv
          /\ call' = CallRecord("benchmark_ghz_state", "-", <<>>, -1, ZeroState, -1,
                                r.err, FALSE)
    /\ pc' = "returned"
    /\ calls' = calls + 1
    /\ UNCHANGED <<num_qubits, prev, gates, measurements, executed, ret, handle,
                   statevector_fp, errors, stats, replays>>

\* The caller takes the result (or catches the exception) and goes on.
Return ==
    /\ pc = "returned"
    /\ pc' = "ready"
    /\ prev' = IF call.op = "measure" /\ call.err = "none"
               THEN <<call.qubits[1], call.result>>
               ELSE <<>>
    /\ call' = NoCall
    /\ ret' = NoValue
    /\ UNCHANGED <<num_qubits, statevector, calls, gates, measurements, executed, handle,
                   statevector_fp, errors, stats, replays>>

Next == ApplyGate \/ Measure \/ Reset \/ BenchmarkGHZ \/ Return

Spec == Init /\ [][Next]_vars

\* Runs that make apply_gate calls only.
NextGates == ApplyGate \/ Return

SpecGates == Init /\ [][NextGates]_vars

\* The observables a caller passes to get_expectation_value.
Observables == {"Z", "X", "CZ", "Bad3x3", "Bad2x4"}

GetStatevector ==
    /\ pc = "ready"
    /\ calls < MaxCalls
    /\ handle' = get_statevector(statevector)
    /\ call' = CallRecord("get_statevector", "-", <<>>, -1, statevector, -1, "none", FALSE)
    /\ pc' = "returned"
    /\ calls' = calls + 1
    /\ UNCHANGED <<num_qubits, statevector, prev, gates, measurements, executed, ret,
                   statevector_fp, errors, stats, replays>>

\* The caller assigns 0 to element i of the array it was given.
WriteReturnedArray ==
    /\ pc = "ready"
    /\ calls < MaxCalls
    /\ handle # NoHandle
    /\ \E i \in Indices :
          LET written == [handle.data EXCEPT !.amp[i] = CZero]
          IN /\ handle' = [handle EXCEPT !.data = written]
             /\ statevector' = IF handle.shared THEN written ELSE statevector
             /\ call' = CallRecord("write_returned_array", "-", <<i>>, -1, statevector,
                                   -1, "none", FALSE)
    /\ pc' = "returned"
    /\ calls' = calls + 1
    /\ UNCHANGED <<num_qubits, prev, gates, measurements, executed, ret, statevector_fp,
                   errors, stats, replays>>

GetProbabilities ==
    /\ pc = "ready"
    /\ calls < MaxCalls
    /\ LET r == get_probabilities(statevector)
       IN /\ statevector' = r.sv
          /\ ret' = r.value
          /\ call' = CallRecord("get_probabilities", "-", <<>>, -1, statevector, -1,
                                r.err, FALSE)
    /\ pc' = "returned"
    /\ calls' = calls + 1
    /\ UNCHANGED <<num_qubits, prev, gates, measurements, executed, handle,
                   statevector_fp, errors, stats, replays>>

GetExpectationValue ==
    /\ pc = "ready"
    /\ calls < MaxCalls
    /\ \E o \in Observables :
          LET r == get_expectation_value(statevector, Gate(o))
          IN /\ statevector' = r.sv
             /\ ret' = r.value
             /\ call' = CallRecord("get_expectation_value", o, <<>>, -1, statevector,
                                   -1, r.err, FALSE)
    /\ pc' = "returned"
    /\ calls' = calls + 1
    /\ UNCHANGED <<num_qubits, prev, gates, measurements, executed, handle,
                   statevector_fp, errors, stats, replays>>

\* Runs that also read the engine: the queries, and writes of the caller to an
\* array it was given.
NextObserve ==
    \/ Next
    \/ GetStatevector
    \/ WriteReturnedArray
    \/ GetProbabilities
    \/ GetExpectationValue

SpecObserve == Init /\ [][NextObserve]_vars

\* The random draws explored for the measurements a QuantumCircuit makes:
\* the smallest, 0, and the largest, (UDen - 1) / UDen.
CircuitDraws == {0, UDen - 1}

\* The gates a caller records in a QuantumCircuit.
CircuitGateNames == {"X", "H"}

\* The arguments of the method that records gate g: x(qubit), h(qubit).
WrapperArgs(g) == {qs \in QubitLists : Pow2(Len(qs)) = Gate(g).rows}

\* The condition under which measure(qubit) calls self.execute(reset=True):
\* the index has passed the range check, gates are recorded and _executed is
\* not set.
EntersExecute(gate_list, ex, qubit) ==
    /\ 0 <= qubit /\ qubit < num_qubits
    /\ Len(gate_list) > 0
    /\ ~ex

\* The history after a measure call that entered self.execute (started) and
\* in which self.execute returned (completed).
Replays(history, started, completed) ==
    [started |-> history.started + (IF started THEN 1 ELSE 0),
     completed |-> history.completed + (IF completed THEN 1 ELSE 0)]

\* QuantumCircuit.x and .h, each self.apply(gate, qubit); up to MaxGates
\* recorded entries
CircuitApply ==
    /\ pc = "ready"
    /\ calls < MaxCalls
    /\ Len(gates) < MaxGates
    /\ \E g \in CircuitGateNames : \E qs \in WrapperArgs(g) :
          LET r == circuit_apply(gates, g, qs)
          IN /\ gates' = r.gate_list
             /\ call' = CallRecord("circuit.apply", g, qs, -1, statevector, -1, r.err, FALSE)
    /\ pc' = "returned"
    /\ calls' = calls + 1
    /\ UNCHANGED <<num_qubits, statevector, prev, measurements, executed, ret, handle,
                   statevector_fp, errors, stats, replays>>

\* QuantumCircuit.execute()
CircuitExecute ==
    /\ pc = "ready"
    /\ calls < MaxCalls
    /\ LET r == execute(gates)
       IN /\ statevector' = r.sv
          /\ ret' = IF r.err = "none" THEN get_statevector(r.sv).data ELSE NoValue
          /\ call' = CircuitCallRecord("circuit.execute", <<>>, -1, statevector, -1,
                                       r.err, FALSE, measurements, executed)
    /\ pc' = "returned"
    /\ calls' = calls + 1
    /\ UNCHANGED <<num_qubits, prev, gates, measurements, executed, handle,
                   statevector_fp, errors, stats, replays>>

\* QuantumCircuit.execute(reset=False)
CircuitExecuteResetFalse ==
    /\ pc = "ready"
    /\ calls < MaxCalls
    /\ LET r == execute_reset_false(statevector, gates)
       IN /\ statevector' = r.sv
          /\ ret' = IF r.err = "none" THEN get_statevector(r.sv).data ELSE NoValue
          /\ call' = CircuitCallRecord("circuit.execute(reset=False)", <<>>, -1,
                                       statevector, -1, r.err, FALSE, measurements,
                                       executed)
    /\ pc' = "returned"
    /\ calls' = calls + 1
    /\ UNCHANGED <<num_qubits, prev, gates, measurements, executed, handle,
                   statevector_fp, errors, stats, replays>>

\* QuantumCircuit.measure(qubit)
CircuitMeasure ==
    /\ pc = "ready"
    /\ calls < MaxCalls
    /\ LET replayed == execute(gates)
       IN \E q \in QubitArgs, u_num \in CircuitDraws :
          LET r == circuit_measure(statevector, replayed, gates, measurements,
                                   executed, q, u_num)
          IN /\ statevector' = r.sv
             /\ measurements' = r.measurements
             /\ executed' = r.executed
             /\ ret' = IF r.err = "none" THEN r.value ELSE NoValue
             /\ replays' = Replays(replays, EntersExecute(gates, executed, q),
                                    r.executed /\ ~executed)
             /\ call' = CircuitCallRecord("circuit.measure", <<q>>, u_num, statevector,
                                          r.value, r.err, r.below, measurements,
                                          executed)
    /\ pc' = "returned"
    /\ calls' = calls + 1
    /\ UNCHANGED <<num_qubits, prev, gates, handle, statevector_fp, errors, stats>>

\* QuantumCircuit.measure_all(), measure(q) drawing draws[q + 1] / UDen
CircuitMeasureAll ==
    /\ pc = "ready"
    /\ calls < MaxCalls
    /\ LET replayed == execute(gates)
       IN \E draws \in [1 .. num_qubits -> CircuitDraws] :
          LET r == measure_all(statevector, replayed, gates, measurements,
                               executed, draws)
          IN /\ statevector' = r.sv
             /\ measurements' = r.measurements
             /\ executed' = r.executed
             /\ ret' = r.value
             /\ replays' = Replays(replays, EntersExecute(gates, executed, 0),
                                    r.executed /\ ~executed)
             /\ call' = CircuitCallRecord("circuit.measure_all", <<>>, draws, statevector,
                                          -1, r.err, r.below, measurements, executed)
    /\ pc' = "returned"
    /\ calls' = calls + 1
    /\ UNCHANGED <<num_qubits, prev, gates, handle, statevector_fp, errors, stats>>

\* QuantumCircuit.reset()
CircuitReset ==
    /\ pc = "ready"
    /\ calls < MaxCalls
    /\ gates' = <<>>
    /\ measurements' = <<>>
    /\ statevector' = reset
    /\ executed' = FALSE
    /\ replays' = NoReplays
    /\ call' = CircuitCallRecord("circuit.reset", <<>>, -1, statevector, -1, "none",
                                 FALSE, measurements, executed)
    /\ pc' = "returned"
    /\ calls' = calls + 1
    /\ UNCHANGED <<num_qubits, prev, ret, handle, statevector_fp, errors, stats>>

\* Runs of a caller that holds a QuantumCircuit and calls its methods.
NextCircuit ==
    \/ CircuitApply
    \/ CircuitExecute
    \/ CircuitExecuteResetFalse
    \/ CircuitMeasure
    \/ CircuitMeasureAll
    \/ CircuitReset
    \/ Return

SpecCircuit == Init /\ [][NextCircuit]_vars

\* Runs of a caller that records gates, executes, measures one qubit at a
\* time and resets: measure_all being a loop of measure calls, these runs
\* visit the states of NextCircuit with the calls made one by one.
NextReplay ==
    \/ CircuitApply
    \/ CircuitExecute
    \/ CircuitExecuteResetFalse
    \/ CircuitMeasure
    \/ CircuitReset
    \/ Return

SpecReplay == Init /\ [][NextReplay]_vars

\* QuantumCircuit.apply(gate, qubit) with a library matrix and one index,
\* also for a matrix that one index does not fit (apply compares the index
\* with the range only); up to MaxGates recorded entries
CircuitApplyAny ==
    /\ pc = "ready"
    /\ Len(gates) < MaxGates
    /\ \E g \in {"H", "CNOT"}, q \in QubitArgs :
          LET qs == <<q>>
              r == circuit_apply(gates, g, qs)
          IN /\ gates' = r.gate_list
             /\ call' = CallRecord("circuit.apply", g, qs, -1, statevector, -1, r.err,
                                   FALSE)
    /\ pc' = "returned"
    /\ UNCHANGED <<num_qubits, statevector, prev, calls, measurements, executed, ret,
                   handle, statevector_fp, errors, stats, replays>>

\* Runs of a caller that records gates with apply, executes, measures and
\* resets.
NextBuilder ==
    \/ CircuitApply
    \/ CircuitApplyAny
    \/ CircuitExecute
    \/ CircuitMeasure
    \/ CircuitReset
    \/ Return

\* QuantumCircuit(n): these runs being longer, the circuits followed are one
\* qubit narrower than the engines of Init.
InitBuilder == Init /\ num_qubits < MaxQubits

SpecBuilder == InitBuilder /\ [][NextBuilder]_vars

\* Runs that record gates and measure, through the QuantumCircuit and on its
\* engine (circuit.simulator) directly.
NextMeasure == CircuitApply \/ CircuitMeasure \/ Measure \/ Return

SpecMeasure == Init /\ [][NextMeasure]_vars

\* The qubit counts a caller passes to the constructor.
RequestedQubits == -1 .. MaxRequested

\* Before the constructor has run there is no engine.
InitNew ==
    /\ num_qubits = 0
    /\ statevector = NoValue
    /\ pc = "new"
    /\ call = CallRecord("none", "-", <<>>, -1, NoValue, -1, "none", FALSE)
    /\ prev = <<>>
    /\ calls = 0
    /\ gates = <<>>
    /\ measurements = <<>>
    /\ executed = FALSE
    /\ ret = NoValue
    /\ handle = NoHandle
    /\ statevector_fp = NoValue
    /\ errors = NoValue
    /\ stats = NoValue
    /\ replays = NoReplays

\* FPGASimulator(n); when it raises there is no engine to go on with.
Construct ==
    /\ pc = "new"
    /\ \E n \in RequestedQubits :
          LET r == init(n)
          IN /\ num_qubits' = r.num_qubits
             /\ statevector' = r.sv
             /\ call' = CallRecord("__init__", "-", <<n>>, -1, NoValue, -1, r.err, FALSE)
             /\ pc' = IF r.err = "none" THEN "returned" ELSE "failed"
    /\ UNCHANGED <<prev, calls, gates, measurements, executed, ret, handle,
                   statevector_fp, errors, stats, replays>>

\* Runs from the constructor on; the calls made to the engine constructed are
\* explored for engines of up to MaxQubits qubits.
NextNew ==
    \/ Construct
    \/ (num_qubits <= MaxQubits /\ Next)

SpecNew == InitNew /\ [][NextNew]_vars

\* The builds of the engine: use_jax=False, or use_jax=True with 64-bit
\* types enabled, computes in binary64; use_jax=True as jax is configured
\* by default computes in binary32; either with or without fused
\* multiply-adds.
Builds == [precision : {Binary32, Binary64}, fused : BOOLEAN]

\* The statevector of __init__ and reset in floating point.
ZeroStateFp(build) ==
    [precision |-> build.precision, fused |-> build.fused,
     amp |-> [i \in Indices |->
                 IF i = 0 THEN <<FromInt(build.precision, 1), FloatZero>>
                 ELSE <<FloatZero, FloatZero>>]]

\* A one-qubit engine of any build, with its amplitudes in floating point
\* next to the exact ones.
InitFloat ==
    /\ num_qubits = 1
    /\ statevector = ZeroState
    /\ \E build \in Builds : statevector_fp = ZeroStateFp(build)
    /\ errors = NoValue
    /\ stats = NoValue
    /\ replays = NoReplays
    /\ pc = "ready"
    /\ call = NoCall
    /\ prev = <<>>
    /\ calls = 0
    /\ gates = <<>>
    /\ measurements = <<>>
    /\ executed = FALSE
    /\ ret = NoValue
    /\ handle = NoHandle

\* The gates applied to the engines whose floating-point amplitudes are
\* followed.
FloatGateNames == {"X", "H", "S"}

\* apply_gate(g, [q]), on the exact and on the floating-point amplitudes
ApplyGateFloat ==
    /\ pc = "ready"
    /\ calls < MaxCalls
    /\ \E g \in FloatGateNames, q \in 0 .. num_qubits - 1 :
          LET r == apply_gate(statevector, Gate(g), <<q>>)
          IN /\ statevector' = r.sv
             /\ statevector_fp' = IF r.err = "none"
                                  THEN apply_gate_fp(statevector_fp, Gate(g), <<q>>)
                                  ELSE statevector_fp
             /\ call' = CallRecord("apply_gate", g, <<q>>, -1, statevector, -1,
                                   r.err, FALSE)
    /\ pc' = "returned"
    /\ calls' = calls + 1
    /\ UNCHANGED <<num_qubits, prev, gates, measurements, executed, ret, handle,
                   errors, stats, replays>>

NextFloat == ApplyGateFloat \/ Return

SpecFloat == InitFloat /\ [][NextFloat]_vars

\* Runs of apply_gate calls on an engine wide enough for two target qubits
\* that are not adjacent.

\* Qubit count of the wide engine.
WideQubits == 3

\* Number of apply_gate calls explored on the wide engine.
WideCalls == 2

\* FPGASimulator(WideQubits)
InitWide ==
    /\ num_qubits = WideQubits
    /\ statevector = ZeroState
    /\ pc = "ready"
    /\ call = NoCall
    /\ prev = <<>>
    /\ calls = 0
    /\ gates = <<>>
    /\ measurements = <<>>
    /\ executed = FALSE
    /\ ret = NoValue
    /\ handle = NoHandle
    /\ statevector_fp = NoValue
    /\ errors = NoValue
    /\ stats = NoValue
    /\ replays = NoReplays

ApplyGateWide ==
    /\ pc = "ready"
    /\ calls < WideCalls
    /\ \E g \in GateNames, qs \in QubitLists :
          LET r == apply_gate(statevector, Gate(g), qs)
          IN /\ statevector' = r.sv
             /\ call' = CallRecord("apply_gate", g, qs, -1, statevector, -1, r.err, FALSE)
    /\ pc' = "returned"
    /\ calls' = calls + 1
    /\ UNCHANGED <<num_qubits, prev, gates, measurements, executed, ret, handle,
                   statevector_fp, errors, stats, replays>>

NextWide == ApplyGateWide \/ Return

SpecWide == InitWide /\ [][NextWide]_vars

----------------------------------------------------------------------------
\* The gate library beyond the fixed matrices above: T, the rotations and
\* create_controlled_gate.  A matrix of the library is held by columns:
\* entry (r, c) is m[r+1][c+1] / sqrt(col_den2[c+1]), so that a column of a
\* controlled rotation can hold 1 beside a column holding cos(theta/2).

\* Largest numerator of the half-angle cosines and sines explored.
MaxAngle == 3

ColMatrix(rows, cols, col_den2, m) ==
    [rows |-> rows, cols |-> cols, col_den2 |-> col_den2, m |-> m]

\* A fixed gate of the library, held by columns.
Columns(g) == ColMatrix(g.rows, g.cols, [c \in 1 .. g.cols |-> g.den2], g.m)

\* np.exp(1j * np.pi / 4) = (1 + 1j) / sqrt(2)
T == ColMatrix(2, 2, <<1, 2>>, << <<R(1), R(0)>>, <<R(0), C(1, 1)>> >>)

\* The angles theta explored: np.cos(theta / 2) = c / sqrt(c^2 + s^2) and
\* np.sin(theta / 2) = s / sqrt(c^2 + s^2), for integers c and s in lowest
\* terms.
Angles ==
    {a \in [c : -MaxAngle .. MaxAngle, s : -MaxAngle .. MaxAngle] :
        /\ a.c # 0 \/ a.s # 0
        /\ \A d \in 2 .. MaxAngle : a.c % d # 0 \/ a.s % d # 0}

\* The common denominator (squared) of np.cos(theta / 2) and np.sin(theta / 2)
HalfAngleDen2(theta) == theta.c * theta.c + theta.s * theta.s

RX(theta) ==
    LET c == R(theta.c)
        s == CMul(C(0, -1), R(theta.s))
        d == HalfAngleDen2(theta)
    IN ColMatrix(2, 2, <<d, d>>, << <<c, s>>, <<s, c>> >>)

\* RY with the sine taken with the same sign in both rows.
RY_without_sign(theta) ==
    LET c == R(theta.c)
        s == R(theta.s)
        d == theta.c * theta.c + theta.s * theta.s
    IN [rows |-> 2, cols |-> 2, col_den2 |-> <<d, d>>, m |-> << <<c, s>>, <<s, c>> >>]

RY(theta) ==
    LET c == R(theta.c)
        s == R(theta.s)
        d == HalfAngleDen2(theta)
    IN ColMatrix(2, 2, <<d, d>>, << <<c, R(-theta.s)>>, <<s, c>> >>)

\* np.exp(-1j * theta / 2) = cos(theta/2) - 1j sin(theta/2), and its conjugate
RZ(theta) ==
    LET d == HalfAngleDen2(theta)
    IN ColMatrix(2, 2, <<d, d>>,
                 << <<C(theta.c, -theta.s), R(0)>>, <<R(0), C(theta.c, theta.s)>> >>)

\* The 4 x 4 array with ones at (0, 0) and (1, 1) and the 2 x 2 array g in
\* rows and columns 2 and 3, as CRX, CRY and CRZ write it out.
ControlledLiteral(g) ==
    ColMatrix(4, 4, <<1, 1, g.col_den2[1], g.col_den2[2]>>,
              << <<R(1), R(0), R(0), R(0)>>,
                 <<R(0), R(1), R(0), R(0)>>,
                 <<R(0), R(0), g.m[1][1], g.m[1][2]>>,
                 <<R(0), R(0), g.m[2][1], g.m[2][2]>> >>)

CRX(theta) == ControlledLiteral(RX(theta))

CRY(theta) == ControlledLiteral(RY(theta))

CRZ(theta) == ControlledLiteral(RZ(theta))

\* Largest num_control_qubits passed to create_controlled_gate.
MaxControls == 2

\* a | b for 0 <= a, b < 2^16
BitOr(a, b) ==
    SumRange([q \in 0 .. 15 |-> IF Bit(a, q) = 1 \/ Bit(b, q) = 1 THEN Pow2(q) ELSE 0],
             0, 15)

\* create_controlled_gate with the block written where every control bit is
\* 0 in place of 1.
create_controlled_gate_on_zero_controls(gate, num_control_qubits) ==
    LET gate_size == gate.rows
        total_size == Pow2(num_control_qubits + Log2Int(gate_size))
        InBlock(idx) == idx < gate_size
    IN [rows |-> total_size, cols |-> total_size,
        col_den2 |-> [c \in 1 .. total_size |->
                         IF InBlock(c - 1) THEN gate.col_den2[c] ELSE 1],
        m |-> [r \in 1 .. total_size |-> [c \in 1 .. total_size |->
                 IF InBlock(r - 1) /\ InBlock(c - 1) THEN gate.m[r][c]
                 ELSE IF r = c THEN R(1) ELSE R(0)]]]

\* quantum_gates.create_controlled_gate: np.eye(total_size) with
\* result[target_start | i, target_start | j] = gate[i, j] written for i and
\* j in range(gate_size), a later write replacing an earlier one.
create_controlled_gate(gate, num_control_qubits) ==
    LET gate_size == gate.rows
        total_size == Pow2(num_control_qubits + Log2Int(gate_size))
        control_mask == Pow2(num_control_qubits) - 1
        target_start == control_mask * Pow2(Log2Int(gate_size))
        idx == Array([i \in 0 .. gate_size - 1 |-> BitOr(target_start, i)])
        InBlock(x) == \E i \in 0 .. gate_size - 1 : idx[i] = x
        Last(x) == CHOOSE i \in 0 .. gate_size - 1 :
                      idx[i] = x /\ \A k \in i + 1 .. gate_size - 1 : idx[k] # x
    IN ColMatrix(total_size, total_size,
                 [c \in 1 .. total_size |->
                     IF InBlock(c - 1) THEN gate.col_den2[Last(c - 1) + 1] ELSE 1],
                 [r \in 1 .. total_size |-> [c \in 1 .. total_size |->
                     IF InBlock(r - 1) /\ InBlock(c - 1)
                     THEN gate.m[Last(r - 1) + 1][Last(c - 1) + 1]
                     ELSE IF r = c THEN R(1) ELSE R(0)]])

FixedGateNames == {"I", "X", "Y", "Z", "H", "S", "T", "CNOT", "CZ", "SWAP"}

RotationNames == {"RX", "RY", "RZ", "CRX", "CRY", "CRZ"}

\* The value of quantum_gates.<name>() or quantum_gates.<name>(theta)
LibraryGate(name, theta) ==
    CASE name = "T" -> T
      [] name = "RX" -> RX(theta)
      [] name = "RY" -> RY(theta)
      [] name = "RZ" -> RZ(theta)
      [] name = "CRX" -> CRX(theta)
      [] name = "CRY" -> CRY(theta)
      [] name = "CRZ" -> CRZ(theta)
      [] OTHER -> Columns(Gate(name))

\* A call of a library function that has just returned.
LibraryCallRecord(op, gate, theta, controls) ==
    [op |-> op, gate |-> gate, theta |-> theta, controls |-> controls,
     qubits |-> <<>>, u |-> -1, pre |-> ZeroState, result |-> -1, err |-> "none",
     below |-> FALSE]

\* theta = 0 (cos(0) = 1, sin(0) = 0), also written for the functions that
\* take no angle.
NoAngle == [c |-> 1, s |-> 0]

\* A caller of the library; no engine call is made.
InitLibrary ==
    /\ num_qubits = 1
    /\ statevector = ZeroState
    /\ pc = "ready"
    /\ call = NoCall
    /\ prev = <<>>
    /\ calls = 0
    /\ gates = <<>>
    /\ measurements = <<>>
    /\ executed = FALSE
    /\ ret = NoValue
    /\ handle = NoHandle
    /\ statevector_fp = NoValue
    /\ errors = NoValue
    /\ stats = NoValue
    /\ replays = NoReplays

\* quantum_gates.I(), ..., quantum_gates.SWAP()
MakeFixedGate ==
    /\ pc = "ready"
    /\ \E name \in FixedGateNames :
          /\ ret' = LibraryGate(name, NoAngle)
          /\ call' = LibraryCallRecord("gate", name, NoAngle, 0)
    /\ pc' = "returned"
    /\ UNCHANGED <<num_qubits, statevector, prev, calls, gates, measurements, executed,
                   handle, statevector_fp, errors, stats, replays>>

\* quantum_gates.RX(theta), ..., quantum_gates.CRZ(theta)
MakeRotation ==
    /\ pc = "ready"
    /\ \E name \in RotationNames, theta \in Angles :
          /\ ret' = LibraryGate(name, theta)
          /\ call' = LibraryCallRecord("gate", name, theta, 0)
    /\ pc' = "returned"
    /\ UNCHANGED <<num_qubits, statevector, prev, calls, gates, measurements, executed,
                   handle, statevector_fp, errors, stats, replays>>

\* create_controlled_gate(g, c) for a gate g of the library
MakeControlled ==
    /\ pc = "ready"
    /\ \E name \in FixedGateNames \cup RotationNames, theta \in Angles,
          c \in 0 .. MaxControls :
          /\ name \in FixedGateNames => theta = NoAngle
          /\ ret' = create_controlled_gate(LibraryGate(name, theta), c)
          /\ call' = LibraryCallRecord("create_controlled_gate", name, theta, c)
    /\ pc' = "returned"
    /\ UNCHANGED <<num_qubits, statevector, prev, calls, gates, measurements, executed,
                   handle, statevector_fp, errors, stats, replays>>

NextLibrary == MakeFixedGate \/ MakeRotation \/ MakeControlled \/ Return

SpecLibrary == InitLibrary /\ [][NextLibrary]_vars

----------------------------------------------------------------------------
\* The error-correction loop: SteaneDecoder, ErrorSimulator and
\* QECFeedbackLoop for the Steane code.  A Python list whose order is never
\* read (the qubits in error) is held as a set.

\* Largest number of qubits in error (X, Z or both) that introduce_errors
\* is followed for.
MaxErrors == 1

\* range(7), the qubits of the code
SteaneQubits == 0 .. 6

\* self.x_stabilizers of SteaneDecoder, x_stabilizers of ErrorSimulator
x_stabilizers == << <<0, 1, 2, 3>>, <<0, 1, 4, 5>>, <<0, 2, 4, 6>> >>

\* self.z_stabilizers of SteaneDecoder, z_stabilizers of ErrorSimulator
z_stabilizers == << <<0, 1, 2, 3>>, <<0, 1, 4, 5>>, <<0, 2, 4, 6>> >>

\* set(list)
ToSet(list) == {list[j] : j \in 1 .. Len(list)}

\* SteaneDecoder._compute_syndrome_x_error: a tuple of 3 bits
compute_syndrome_x_error(qubit) ==
    [i \in 1 .. Len(x_stabilizers) |-> IF qubit \in ToSet(x_stabilizers[i]) THEN 1 ELSE 0]

\* SteaneDecoder._compute_syndrome_z_error: a tuple of 3 bits
compute_syndrome_z_error(qubit) ==
    [i \in 1 .. Len(z_stabilizers) |-> IF qubit \in ToSet(z_stabilizers[i]) THEN 1 ELSE 0]

\* {'x': [...], 'z': [...]}
Correction(x, z) == [x |-> x, z |-> z]

\* table[key] = value for a key that table does not hold
Put(table, key, value) == (key :> value) @@ table

RECURSIVE single_x_errors(_, _)
\* the loop "Single X errors" of _build_lookup_table, from qubit on: the key
\* is the tuple of 3 bits that _compute_syndrome_x_error returns
single_x_errors(table, qubit) ==
    IF qubit \notin SteaneQubits THEN table
    ELSE LET syndrome == compute_syndrome_x_error(qubit)
         IN IF syndrome \in DOMAIN table
            THEN single_x_errors(table, qubit + 1)
            ELSE single_x_errors(Put(table, syndrome, Correction(<<qubit>>, <<>>)),
                                 qubit + 1)

RECURSIVE single_z_errors(_, _)
\* the loop "Single Z errors", from qubit on
single_z_errors(table, qubit) ==
    IF qubit \notin SteaneQubits THEN table
    ELSE LET syndrome == compute_syndrome_z_error(qubit)
         IN IF syndrome \in DOMAIN table
            THEN single_z_errors(table, qubit + 1)
            ELSE single_z_errors(Put(table, syndrome, Correction(<<>>, <<qubit>>)),
                                 qubit + 1)

RECURSIVE single_y_errors(_, _)
\* the loop "Single Y errors", from qubit on: the key is a tuple of 6 bits
single_y_errors(table, qubit) ==
    IF qubit \notin SteaneQubits THEN table
    ELSE LET syndrome == compute_syndrome_x_error(qubit) \o compute_syndrome_z_error(qubit)
         IN IF syndrome \in DOMAIN table
            THEN single_y_errors(table, qubit + 1)
            ELSE single_y_errors(Put(table, syndrome, Correction(<<qubit>>, <<qubit>>)),
                                 qubit + 1)

\* SteaneDecoder._build_lookup_table: self.syndrome_to_correction
syndrome_to_correction ==
    LET no_error == <<0, 0, 0, 0, 0, 0>> :> Correction(<<>>, <<>>)
    IN single_y_errors(single_z_errors(single_x_errors(no_error, 0), 0), 0)

\* SteaneDecoder.decode
decode(syndrome_x, syndrome_z) ==
    LET syndrome == syndrome_x \o syndrome_z
    IN IF syndrome \in DOMAIN syndrome_to_correction
       THEN syndrome_to_correction[syndrome]
       ELSE Correction(<<>>, <<>>)

\* self.errors of ErrorSimulator
Errors(x, z) == [x |-> x, z |-> z]

NoErrors == Errors({}, {})

\* ErrorSimulator._measure_steane_syndrome: <<syndrome_x, syndrome_z>>
measure_steane_syndrome(errs) ==
    <<[i \in 1 .. Len(x_stabilizers) |->
          Cardinality({q \in ToSet(x_stabilizers[i]) : q \in errs.x}) % 2],
      [i \in 1 .. Len(z_stabilizers) |->
          Cardinality({q \in ToSet(z_stabilizers[i]) : q \in errs.z}) % 2]>>

\* set(a) ^ set(b)
SymmetricDifference(a, b) == (a \ b) \cup (b \ a)

\* ErrorSimulator.apply_correction: the value returned and self.errors after
apply_correction(errs, correction) ==
    LET corrected_x == SymmetricDifference(errs.x, ToSet(correction.x))
        corrected_z == SymmetricDifference(errs.z, ToSet(correction.z))
    IN [success |-> corrected_x = {} /\ corrected_z = {},
        errors |-> Errors(corrected_x, corrected_z)]

\* The values introduce_errors can draw: any qubits, of which those with at
\* most MaxErrors qubits in error are followed.
ErrorDraws ==
    {e \in [x : SUBSET SteaneQubits, z : SUBSET SteaneQubits] :
        Cardinality(e.x \cup e.z) <= MaxErrors}

\* self.stats of QECFeedbackLoop, without the decoding times
Stats(total, successful, failed) ==
    [total_cycles |-> total, successful_corrections |-> successful,
     failed_corrections |-> failed]

\* run_cycle counting a failed correction as no cycle outcome at all.
run_cycle_dropping_failures(drawn, st) ==
    LET syndrome == measure_steane_syndrome(drawn)
        correction == decode(syndrome[1], syndrome[2])
        applied == apply_correction(drawn, correction)
    IN [success |-> applied.success,
        errors |-> applied.errors,
        syndrome |-> syndrome,
        correction |-> correction,
        stats |-> [total_cycles |-> st.total_cycles + 1,
                   successful_corrections |->
                       st.successful_corrections + (IF applied.success THEN 1 ELSE 0),
                   failed_corrections |-> st.failed_corrections]]

\* QECFeedbackLoop.run_cycle, drawn being what introduce_errors draws
run_cycle(drawn, st) ==
    LET syndrome == measure_steane_syndrome(drawn)
        correction == decode(syndrome[1], syndrome[2])
        applied == apply_correction(drawn, correction)
    IN [success |-> applied.success,
        errors |-> applied.errors,
        syndrome |-> syndrome,
        correction |-> correction,
        stats |-> Stats(st.total_cycles + 1,
                        st.successful_corrections + (IF applied.success THEN 1 ELSE 0),
                        st.failed_corrections + (IF applied.success THEN 0 ELSE 1))]

\* A call of a QECFeedbackLoop method that has just returned.
LoopCallRecord(op, drawn, cycle, stats_before) ==
    [op |-> op, drawn |-> drawn, cycle |-> cycle, stats_before |-> stats_before,
     qubits |-> <<>>, err |-> "none"]

\* QECFeedbackLoop("steane", "steane")
InitLoop ==
    /\ num_qubits = 1
    /\ statevector = ZeroState
    /\ pc = "ready"
    /\ call = NoCall
    /\ prev = <<>>
    /\ calls = 0
    /\ gates = <<>>
    /\ measurements = <<>>
    /\ executed = FALSE
    /\ ret = NoValue
    /\ handle = NoHandle
    /\ statevector_fp = NoValue
    /\ errors = NoErrors
    /\ stats = Stats(0, 0, 0)
    /\ replays = NoReplays

RunCycle ==
    /\ pc = "ready"
    /\ calls < MaxCalls
    /\ \E drawn \in ErrorDraws :
          LET r == run_cycle(drawn, stats)
          IN /\ errors' = r.errors
             /\ stats' = r.stats
             /\ ret' = r.success
             /\ call' = LoopCallRecord("run_cycle", drawn, r, stats)
    /\ pc' = "returned"
    /\ calls' = calls + 1
    /\ UNCHANGED <<num_qubits, statevector, prev, gates, measurements, executed, handle,
                   statevector_fp, replays>>

\* QECFeedbackLoop.reset
LoopReset ==
    /\ pc = "ready"
    /\ calls < MaxCalls
    /\ errors' = NoErrors
    /\ stats' = Stats(0, 0, 0)
    /\ call' = LoopCallRecord("loop_reset", NoErrors, NoValue, stats)
    /\ pc' = "returned"
    /\ calls' = calls + 1
    /\ UNCHANGED <<num_qubits, statevector, prev, gates, measurements, executed, ret,
                   handle, statevector_fp, replays>>

NextLoop == RunCycle \/ LoopReset \/ Return

SpecLoop == InitLoop /\ [][NextLoop]_vars

----------------------------------------------------------------------------
\* The device adapter: FPGADevice, whose circuit is the recorded gate list.

\* np.kron(a, b)
Kron(a, b) ==
    Matrix(a.rows * b.rows, a.cols * b.cols, a.den2 * b.den2,
           [r \in 1 .. a.rows * b.rows |-> [c \in 1 .. a.cols * b.cols |->
               CMul(Entry(a, (r - 1) \div b.rows, (c - 1) \div b.cols),
                    Entry(b, (r - 1) % b.rows, (c - 1) % b.cols))]])

RECURSIVE kron_wires(_, _, _, _)
\* the loop "for i in range(self.num_qubits)" of _get_observable_matrix,
\* from i on
kron_wires(full_op, op, wire, i) ==
    IF i >= num_qubits THEN full_op
    ELSE kron_wires(Kron(full_op, IF i = wire THEN op ELSE I), op, wire, i + 1)

\* FPGADevice._get_observable_matrix for PauliX, PauliY, PauliZ, Identity
\* and Hadamard on one wire
get_observable_matrix(op_name, wire) ==
    LET op == CASE op_name = "PauliX" -> X
                [] op_name = "PauliY" -> Y
                [] op_name = "PauliZ" -> Z
                [] op_name = "Identity" -> I
                [] op_name = "Hadamard" -> H
    IN IF num_qubits > 1 THEN kron_wires(I, op, wire, 0) ELSE op

\* FPGADevice.expval: self.circuit.execute(), then get_expectation_value
\* with the matrix of the observable
expval(gate_list, op_name, wire) ==
    LET e == execute(gate_list)
        obs_matrix == get_observable_matrix(op_name, wire)
    IN IF e.err # "none" THEN [err |-> e.err, sv |-> e.sv, value |-> NoValue,
                               obs_matrix |-> obs_matrix]
       ELSE LET q == get_expectation_value(e.sv, obs_matrix)
            IN [err |-> q.err, sv |-> q.sv, value |-> q.value,
                obs_matrix |-> obs_matrix]

\* FPGADevice.apply with one operation among PauliX, Hadamard and CNOT on
\* wires of the device
DeviceApply ==
    /\ pc = "ready"
    /\ Len(gates) < MaxGates
    /\ \E g \in {"X", "H", "CNOT"}, a, b \in 0 .. num_qubits - 1 :
          /\ IF g = "CNOT" THEN a # b ELSE a = b
          /\ LET qs == IF g = "CNOT" THEN <<a, b>> ELSE <<a>>
                 r == circuit_apply(gates, g, qs)
             IN /\ gates' = r.gate_list
                /\ call' = CircuitCallRecord("device_apply", qs, -1, statevector, -1,
                                             r.err, FALSE, measurements, executed)
    /\ pc' = "returned"
    /\ UNCHANGED <<num_qubits, statevector, prev, calls, measurements, executed, ret,
                   handle, statevector_fp, errors, stats, replays>>

\* FPGADevice.expval(observable) for a single-wire observable
DeviceExpval ==
    /\ pc = "ready"
    /\ calls < MaxCalls
    /\ \E o \in {"PauliX", "PauliY", "PauliZ", "Identity", "Hadamard"},
          w \in 0 .. num_qubits - 1 :
          LET r == expval(gates, o, w)
          IN /\ statevector' = r.sv
             /\ ret' = r.value
             /\ call' = [op |-> "expval", gate |-> o, qubits |-> <<w>>,
                         pre |-> statevector, err |-> r.err,
                         obs_matrix |-> r.obs_matrix]
    /\ pc' = "returned"
    /\ calls' = calls + 1
    /\ UNCHANGED <<num_qubits, prev, gates, measurements, executed, handle,
                   statevector_fp, errors, stats, replays>>

NextDevice == DeviceApply \/ DeviceExpval \/ Return

SpecDevice == Init /\ [][NextDevice]_vars

----------------------------------------------------------------------------
\* Properties.

\* A call of op has just returned or raised.
Returned(op) == pc = "returned" /\ call.op = op

InRange(q) == 0 <= q /\ q < num_qubits

\* sum(|amplitude|^2) = 1
Normalized(sv) == NormSqNum(sv) = sv.den2

\* The basis state |i>
IsBasisState(sv, i) ==
    /\ sv.den2 = 1
    /\ \A j \in DOMAIN sv.amp : sv.amp[j] = IF j = i THEN COne ELSE CZero

\* The gates of the gate library among GateNames.
LibraryGates == {"X", "H", "CNOT"}

\* i with bit t flipped
FlipBit(i, t) == IF Bit(i, t) = 1 THEN i - Pow2(t) ELSE i + Pow2(t)

\* C1: apply_gate(CNOT, [c, t]) with c # t in range, on the basis state |i>,
\* returns and leaves the basis state i with bit t flipped when bit c of i is
\* 1, and i itself when bit c is 0 (the first listed qubit is the control).
C1_CnotFirstIsControl ==
    (/\ Returned("apply_gate")
     /\ call.gate = "CNOT"
     /\ Len(call.qubits) = 2
     /\ InRange(call.qubits[1]) /\ InRange(call.qubits[2])
     /\ call.qubits[1] # call.qubits[2])
    => \A i \in Indices :
          IsBasisState(call.pre, i)
          => /\ call.err = "none"
             /\ IsBasisState(statevector,
                             IF Bit(i, call.qubits[1]) = 1
                             THEN FlipBit(i, call.qubits[2]) ELSE i)

\* The state (|0...0> + |1...1>) / sqrt(2)
GHZState ==
    StateVec([i \in Indices |-> IF i = 0 \/ i = dimension - 1 THEN COne ELSE CZero], 2)

\* C2: for n >= 2, H on qubit 0 then CNOT on [q, q+1] for q = 0..n-2 from the
\* all-zero state leaves exactly two nonzero amplitudes, both 1/sqrt(2), at
\* indices 0 and 2^n - 1.
C2_GhzChain ==
    (Returned("benchmark_ghz_state") /\ num_qubits >= 2)
    => (call.err = "none" /\ statevector = GHZState)

\* C3: after every call of a sequence of apply_gate calls (of library gates)
\* from the all-zero state, the squared magnitudes of the amplitudes sum to 1.
\* Checked under SpecGates, whose runs are the sequences of apply_gate calls.
C3_NormIsOne ==
    (Returned("apply_gate") /\ call.gate \in LibraryGates /\ Normalized(call.pre))
    => Normalized(statevector)

\* qubit_indices has an index outside [0, n) or lists an index twice
BadIndices(qs) ==
    \/ \E j \in 1..Len(qs) : ~InRange(qs[j])
    \/ \E j, k \in 1..Len(qs) : j # k /\ qs[j] = qs[k]

IsPowerOfTwo(x) == \E k \in 0..16 : x = Pow2(k)

\* the matrix is not square, or its dimension is not a power of two, or the
\* number of indices is not log2 of its dimension
BadShape(g, qs) ==
    \/ g.rows # g.cols
    \/ ~IsPowerOfTwo(g.rows)
    \/ Pow2(Len(qs)) # g.rows

\* C4: apply_gate fails whenever an index of qubit_indices is outside [0, n)
\* or an index occurs twice in it.
C4_BadIndicesRaise ==
    (Returned("apply_gate") /\ BadIndices(call.qubits)) => call.err # "none"

\* C5: apply_gate fails whenever the matrix is not square, or its dimension is
\* not a power of two, or len(qubit_indices) differs from log2 of its rows.
C5_BadShapeRaises ==
    (Returned("apply_gate") /\ BadShape(Gate(call.gate), call.qubits))
    => call.err # "none"

\* C6: an apply_gate call that fails validation leaves the amplitudes exactly
\* as they were before the call.
C6_FailedGateLeavesState ==
    (Returned("apply_gate") /\ call.err # "none") => statevector = call.pre

\* C6 happens: a 4x4 matrix given with one (valid) qubit index is rejected on
\* an engine that has left the all-zero state.
C6_Witness ==
    /\ Returned("apply_gate")
    /\ call.gate = "CNOT"
    /\ Len(call.qubits) = 1
    /\ InRange(call.qubits[1])
    /\ call.err # "none"
    /\ call.pre # ZeroState

\* C7: measure(q) with the draw u returns 0 exactly when u < p0, and never
\* returns an outcome whose probability is zero.
C7_OutcomeFollowsDraw ==
    (Returned("measure") /\ call.err = "none")
    => LET p0 == prob_0_of(call.pre, call.qubits[1])
           p1 == NormSqNum(call.pre) - p0
       IN /\ (call.result = 0) <=> (call.u * call.pre.den2 < p0 * UDen)
          /\ call.result = 0 => p0 > 0
          /\ call.result = 1 => p1 > 0

\* C8: a measure(q) made right after a measure(q) that returned r returns r,
\* whatever the draw, and leaves the state as it was.
C8_RemeasureRepeats ==
    (/\ Returned("measure")
     /\ prev # <<>>
     /\ InRange(call.qubits[1])
     /\ prev[1] = call.qubits[1])
    => /\ call.err = "none"
       /\ call.result = prev[2]
       /\ statevector = call.pre

\* C9: after a measure(q) that returns r, every amplitude whose bit q differs
\* from r is zero, every other amplitude is its value before the call divided
\* by the L2 norm of the surviving amplitudes, and the squared magnitudes sum
\* to 1.
C9_CollapseAndRenormalize ==
    (Returned("measure") /\ call.err = "none")
    => LET q == call.qubits[1]
           r == call.result
           kept == [i \in Indices |-> IF Bit(i, q) = r THEN call.pre.amp[i] ELSE CZero]
           norm2 == SumRange([i \in Indices |-> Abs2(kept[i])], 0, dimension - 1)
       IN /\ \A i \in Indices : Bit(i, q) # r => statevector.amp[i] = CZero
          /\ norm2 > 0
          /\ statevector = Canon(kept, norm2)
          /\ Normalized(statevector)

\* C10: when the norm of the projected state is not above the threshold,
\* measure resets the engine to the all-zero state and raises: it does not
\* return an outcome bit.
C10_LowNormRaises ==
    (Returned("measure") /\ call.below)
    => /\ statevector = ZeroState
       /\ call.err # "none"
       /\ call.result = -1

\* C11: measure with a qubit index below 0 or not below num_qubits raises,
\* returns no outcome bit, and leaves the statevector as it was; through
\* QuantumCircuit.measure it also leaves the recorded measurements as they
\* were and replays nothing.
C11_BadQubitRejected ==
    /\ (Returned("measure") /\ ~InRange(call.qubits[1]))
       => /\ call.err = "ValueError"
          /\ call.result = -1
          /\ statevector = call.pre
    /\ (Returned("circuit.measure") /\ ~InRange(call.qubits[1]))
       => /\ call.err = "ValueError"
          /\ call.result = -1
          /\ ret = NoValue
          /\ statevector = call.pre
          /\ measurements = call.measurements_before
          /\ executed = call.executed_before

\* QuantumCircuit.measure rejects an index with measurements recorded and the
\* engine away from the all-zero state.
C11_Witness ==
    /\ Returned("circuit.measure")
    /\ ~InRange(call.qubits[1])
    /\ call.err = "ValueError"
    /\ measurements # <<>>
    /\ call.pre # ZeroState

\* The amplitudes of sv at the indices whose bits 0 .. k - 1 are
\* results[1] .. results[k], zero elsewhere.
KeptThrough(sv, results, k) ==
    [i \in Indices |->
        IF \A q \in 0 .. k - 1 : Bit(i, q) = results[q + 1] THEN sv.amp[i] ELSE CZero]

KeptNorm2(sv, results, k) ==
    SumRange([i \in Indices |-> Abs2(KeptThrough(sv, results, k)[i])], 0, dimension - 1)

\* sv collapsed by the measurements of qubits 0 .. k - 1 with the outcomes
\* results[1] .. results[k]: projected and renormalised.
CollapsedThrough(sv, results, k) ==
    Canon(KeptThrough(sv, results, k), KeptNorm2(sv, results, k))

\* C12: measure_all measures qubits 0, 1, ..., n - 1 in this order and returns
\* the n outcomes in this order; the measurement of qubit q acts on the state
\* collapsed by the measurements of qubits 0 .. q - 1, nothing resetting the
\* engine or replaying the gates between two of them (the gates are replayed
\* before the first one at most), and the recorded measurements grow by the
\* n pairs in order.
C12_MeasureAllCollapsesInOrder ==
    (Returned("circuit.measure_all") /\ call.err = "none")
    => LET start == IF gates # <<>> /\ ~call.executed_before
                    THEN execute(gates).sv
                    ELSE call.pre
       IN /\ Len(ret) = num_qubits
          /\ measurements =
                call.measurements_before \o [q \in 1 .. num_qubits |-> <<q - 1, ret[q]>>]
          /\ \A q \in 0 .. num_qubits - 1 :
                /\ KeptNorm2(start, ret, q) > 0
                /\ LET before == CollapsedThrough(start, ret, q)
                   IN ret[q + 1] = draw_result(call.u[q + 1], prob_0_of(before, q),
                                               before.den2)
          /\ KeptNorm2(start, ret, num_qubits) > 0
          /\ statevector = CollapsedThrough(start, ret, num_qubits)

RECURSIVE AppliedInOrder(_, _, _)
\* sv after the entries 1 .. k of a recorded sequence, applied one after the
\* other in the order of their positions.
AppliedInOrder(sv, entries, k) ==
    IF k = 0 THEN sv
    ELSE apply_gate(AppliedInOrder(sv, entries, k - 1), Gate(entries[k].gate),
                    entries[k].qubits).sv

\* C13: execute() leaves and returns the statevector obtained from |0..0> by
\* applying the recorded entries in insertion order, whatever state the
\* engine was in before (in particular a state collapsed by measure calls);
\* the result being a function of the recorded sequence alone, a second
\* execute() on the same sequence returns the same statevector.
C13_ExecuteReplaysFromZero ==
    (Returned("circuit.execute") /\ call.err = "none")
    => /\ statevector = AppliedInOrder(ZeroState, gates, Len(gates))
       /\ ret = statevector

\* execute() after a measure that collapsed the state: the engine was not in
\* the state execute() returns.
C13_Witness ==
    /\ Returned("circuit.execute")
    /\ call.err = "none"
    /\ gates # <<>>
    /\ call.measurements_before # <<>>
    /\ call.pre # statevector
    /\ call.pre # ZeroState

\* A step in which the call op is made and returns.
Calls(op) == pc = "ready" /\ pc' = "returned" /\ call'.op = op

\* C14: the array get_statevector returns holds the engine's amplitudes and
\* is independent of the engine: a write of the caller to it leaves the
\* engine's amplitudes as they were, and apply_gate, measure and reset
\* (benchmark_ghz_state making these calls) leave every array returned
\* earlier as it was.
C14_ReturnedArrayIndependent ==
    [][/\ Calls("get_statevector")
          => handle'.data = statevector /\ statevector' = statevector
       /\ Calls("write_returned_array")
          => statevector' = statevector
       /\ (\E op \in {"apply_gate", "measure", "reset", "benchmark_ghz_state"} : Calls(op))
          => handle' = handle]_vars

\* The caller zeroes a nonzero element of an array it was given before a
\* gate changed the engine's amplitudes.
C14_Witness ==
    /\ Returned("write_returned_array")
    /\ call.pre = statevector
    /\ statevector.den2 = 2
    /\ handle.data.den2 = 1
    /\ handle.data.amp[call.qubits[1]] = CZero
    /\ handle.data # ZeroState

\* C15: get_probabilities returns D values, the one of index i being the
\* squared magnitude re^2 + im^2 of amplitude i; get_probabilities and
\* get_expectation_value, raising or not, leave the amplitudes as they were.
C15_QueriesReadOnly ==
    /\ Returned("get_probabilities")
       => /\ call.err = "none"
          /\ DOMAIN ret.num = 0 .. Pow2(num_qubits) - 1
          /\ \A i \in 0 .. Pow2(num_qubits) - 1 :
                ret.num[i] = call.pre.amp[i][1] * call.pre.amp[i][1]
                             + call.pre.amp[i][2] * call.pre.amp[i][2]
          /\ ret.den = call.pre.den2
          /\ statevector = call.pre
    /\ Returned("get_expectation_value") => statevector = call.pre

\* get_probabilities on a superposition: two basis states of probability 1/2.
C15_Witness ==
    /\ Returned("get_probabilities")
    /\ ret.den = 2
    /\ \E i, j \in Indices : i # j /\ ret.num[i] = 1 /\ ret.num[j] = 1
    /\ statevector = call.pre

\* C16: get_expectation_value raises when the observable does not have D
\* rows and D columns, returning nothing and leaving the amplitudes as they
\* were.
C16_WrongShapeObservableRaises ==
    (/\ Returned("get_expectation_value")
     /\ \/ Gate(call.gate).rows # Pow2(num_qubits)
        \/ Gate(call.gate).cols # Pow2(num_qubits))
    => /\ call.err # "none"
       /\ ret = NoValue
       /\ statevector = call.pre

\* An observable with D rows and another number of columns, on a state that
\* is not the initial one.
C16_Witness ==
    /\ Returned("get_expectation_value")
    /\ Gate(call.gate).rows = Pow2(num_qubits)
    /\ Gate(call.gate).cols # Pow2(num_qubits)
    /\ call.err = "ValueError"
    /\ statevector # ZeroState

\* The value of an Expectation as a rational, when the observable's entries
\* are integers: num / den.
IsValue(e, v) == e.obs_den2 = 1 /\ e.num = v * e.den

\* C17: on a 1-qubit engine get_expectation_value(Z) returns +1 in |0>,
\* -1 in |1> = X|0> and 0 in the equal superposition H|0>.
C17_ExpectationOfZ ==
    (Returned("get_expectation_value") /\ num_qubits = 1 /\ call.gate = "Z")
    => /\ call.err = "none"
       /\ call.pre = ZeroState => IsValue(ret, 1)
       /\ call.pre = apply_gate(ZeroState, X, <<0>>).sv => IsValue(ret, -1)
       /\ call.pre = apply_gate(ZeroState, H, <<0>>).sv => IsValue(ret, 0)

\* <Z> asked in the equal superposition reached by H.
C17_Witness ==
    /\ Returned("get_expectation_value")
    /\ num_qubits = 1
    /\ call.gate = "Z"
    /\ call.pre = apply_gate(ZeroState, H, <<0>>).sv
    /\ IsValue(ret, 0)

\* C18: reset never raises, whatever gates and measurements came before; it
\* leaves amplitude 0 equal to 1 and every other amplitude 0, and as many
\* amplitudes as before, D = 2^n for the same n.
C18_ResetRestoresZeroState ==
    Returned("reset")
    => /\ call.err = "none"
       /\ DOMAIN statevector.amp = DOMAIN call.pre.amp
       /\ DOMAIN statevector.amp = 0 .. Pow2(num_qubits) - 1
       /\ statevector.den2 = 1
       /\ statevector.amp[0] = COne
       /\ \A i \in DOMAIN statevector.amp : i # 0 => statevector.amp[i] = CZero

\* reset called right after a measurement that left the engine in another
\* basis state than |0..0>.
C18_Witness ==
    /\ Returned("reset")
    /\ prev # <<>>
    /\ call.pre # ZeroState
    /\ call.pre.amp[0] = CZero
    /\ statevector = ZeroState

\* The constructor has been called with n and has returned or raised.
ConstructedWith(n) ==
    call.op = "__init__" /\ pc \in {"returned", "failed"} /\ call.qubits = <<n>>

\* C19: the constructor raises for n < 1 and for n > 16, and no engine
\* exists then; for 1 <= n <= 16 it returns an engine of n qubits with
\* D = 2^n amplitudes, amplitude 0 equal to 1 and every other amplitude 0.
C19_ConstructorLimits ==
    \A n \in RequestedQubits :
       ConstructedWith(n)
       => IF n < 1 \/ n > 16
          THEN /\ pc = "failed"
               /\ call.err = "ValueError"
               /\ statevector = NoValue
          ELSE /\ pc = "returned"
               /\ call.err = "none"
               /\ num_qubits = n
               /\ DOMAIN statevector.amp = 0 .. Pow2(n) - 1
               /\ statevector.den2 = 1
               /\ statevector.amp[0] = COne
               /\ \A i \in 1 .. Pow2(n) - 1 : statevector.amp[i] = CZero

\* The smallest qubit count above the limit, rejected.
C19_Witness ==
    /\ ConstructedWith(16 + 1)
    /\ pc = "failed"
    /\ call.err = "ValueError"
    /\ num_qubits = 0

\* The second of two apply_gate(H, [0]) calls on a new 1-qubit engine has
\* returned.
HTwice ==
    /\ Returned("apply_gate")
    /\ num_qubits = 1
    /\ calls = 2
    /\ call.gate = "H"
    /\ call.qubits = <<0>>
    /\ call.pre = apply_gate(ZeroState, H, <<0>>).sv

\* |x - y| <= 2^(2 - p): four units in the last place of 1 at precision p.
WithinRounding(p, x, y) ==
    LET d == ExactSum(x, FNeg(y))
    IN \/ d.mant = <<>>
       \/ /\ 2 - p - d.exp >= 0
          /\ ~BigLess(ShiftLeft(<<1>>, 2 - p - d.exp), d.mant)

\* C20 as stated: after H twice on a 1-qubit engine in the all-zero state
\* the amplitudes the engine holds are exactly [1, 0].
C20_HTwiceExactlyZeroState ==
    HTwice => statevector_fp.amp = ZeroStateFp(statevector_fp).amp

\* C20 amended: after H twice on a 1-qubit engine in the all-zero state the
\* amplitudes are [1, 0] up to rounding and not exactly: each part of each
\* amplitude is within 2^(2 - p) of that of [1, 0], p being the precision of
\* the build (2^-51 in binary64, 2^-22 in binary32), and amplitude 0 is not
\* 1.  Without rounding the product is [1, 0].
C20_HTwiceWithinRounding ==
    HTwice
    => /\ statevector = ZeroState
       /\ \A i \in Indices : \A part \in 1 .. 2 :
             WithinRounding(statevector_fp.precision, statevector_fp.amp[i][part],
                            ZeroStateFp(statevector_fp).amp[i][part])
       /\ statevector_fp.amp[0][1] # FromInt(statevector_fp.precision, 1)

\* H twice computed in binary64 with every operation rounded: amplitude 0 is
\* below 1 and amplitude 1 is 0.
C20_Witness ==
    /\ HTwice
    /\ statevector_fp.precision = Binary64
    /\ ~statevector_fp.fused
    /\ statevector_fp.amp[0][1] # FromInt(Binary64, 1)
    /\ ~statevector_fp.amp[0][1].neg
    /\ statevector_fp.amp[0][1].exp < -Binary64 + 1
    /\ statevector_fp.amp[1] = <<FloatZero, FloatZero>>

\* The conjugate transpose of g times g, entry (r, c), as a numerator over
\* sqrt(g.col_den2[r] * g.col_den2[c]).
GramNum(g, r, c) ==
    CSumRange([k \in 1 .. g.rows |-> CMul(CConj(g.m[k][r]), g.m[k][c])], 1, g.rows)

IsUnitary(g) ==
    /\ g.rows = g.cols
    /\ \A r, c \in 1 .. g.cols :
          GramNum(g, r, c) = IF r = c THEN R(g.col_den2[c]) ELSE CZero

\* C21: every matrix the gate library produces (the fixed gates, and the
\* rotations and controlled rotations for every angle) is unitary: its
\* conjugate transpose times itself is the identity.
C21_LibraryGatesUnitary ==
    (pc = "returned" /\ call.op = "gate") => IsUnitary(ret)

\* A controlled rotation by an angle that is no multiple of pi/2 was made.
C21_Witness ==
    /\ pc = "returned" /\ call.op = "gate" /\ call.gate = "CRY"
    /\ call.theta = [c |-> 2, s |-> 3]
    /\ ret.m[3][4] = R(-3) /\ ret.col_den2[4] = 13
    /\ IsUnitary(ret)

\* The entry (r, c) (counted from 0) and the squared denominator of column c
\* of a matrix that is g where the bits of the index above the lowest m are
\* all 1 and the identity elsewhere.
ControlledEntry(g, m, controls, r, c) ==
    LET OnBlock(x) == x \div Pow2(m) = Pow2(controls) - 1
    IN IF OnBlock(r) /\ OnBlock(c)
       THEN g.m[(r % Pow2(m)) + 1][(c % Pow2(m)) + 1]
       ELSE IF r = c THEN R(1) ELSE R(0)

ControlledDen2(g, m, controls, c) ==
    IF c \div Pow2(m) = Pow2(controls) - 1 THEN g.col_den2[(c % Pow2(m)) + 1] ELSE 1

\* C22: create_controlled_gate(gate, c) of an m-qubit gate is a
\* 2^(c+m) x 2^(c+m) matrix that is gate on the block where all c control
\* bits (the most significant of the index) are 1 and the identity on every
\* other control pattern; create_controlled_gate(X, 1) is CNOT and
\* create_controlled_gate(Z, 1) is CZ.
C22_ControlledGateBlock ==
    (pc = "returned" /\ call.op = "create_controlled_gate")
    => LET g == LibraryGate(call.gate, call.theta)
           m == IF g.rows = 2 THEN 1 ELSE 2
           size == Pow2(call.controls + m)
       IN /\ ret.rows = size /\ ret.cols = size
          /\ DOMAIN ret.m = 1 .. size
          /\ \A r, c \in 0 .. size - 1 :
                /\ ret.m[r + 1][c + 1] = ControlledEntry(g, m, call.controls, r, c)
                /\ ret.col_den2[c + 1] = ControlledDen2(g, m, call.controls, c)
          /\ (call.gate = "X" /\ call.controls = 1) => ret = Columns(CNOT)
          /\ (call.gate = "Z" /\ call.controls = 1) => ret = Columns(CZ)

\* A rotation was given two controls: the result is 8 x 8 with the rotation
\* in its last two rows and columns.
C22_Witness ==
    /\ pc = "returned" /\ call.op = "create_controlled_gate"
    /\ call.gate = "RY" /\ call.theta = [c |-> 1, s |-> 2] /\ call.controls = 2
    /\ ret.rows = 8
    /\ ret.m[7][8] = R(-2) /\ ret.m[8][7] = R(2) /\ ret.m[1][1] = R(1)
    /\ ret.col_den2 = <<1, 1, 1, 1, 1, 1, 5, 5>>

\* The error drawn is one error on one qubit: X only, Z only, or both.
SingleQubitError(e) ==
    \E q \in SteaneQubits :
       e \in {Errors({q}, {}), Errors({}, {q}), Errors({q}, {q})}

\* C23: the Steane decoder corrects any single-qubit error: for the
\* syndrome ErrorSimulator measures for an X, a Z or an X-and-Z error on
\* one qubit, applying the correction that decode returns leaves no error
\* (apply_correction returns True).
C23_SingleErrorsCorrected ==
    (pc = "returned" /\ call.op = "run_cycle" /\ SingleQubitError(call.drawn))
    => /\ call.cycle.success
       /\ errors = NoErrors

\* C28: after any run_cycle and reset calls on a QECFeedbackLoop,
\* total_cycles = successful_corrections + failed_corrections; a run_cycle
\* adds 1 to total_cycles and 1 to exactly one of the other two counters;
\* reset sets the three counters to 0 and clears the simulator's errors.
C28_CountersAddUp ==
    (stats # NoValue)
    => /\ stats.total_cycles = stats.successful_corrections + stats.failed_corrections
       /\ (pc = "returned" /\ call.op = "run_cycle")
          => LET before == call.stats_before
                 ds == stats.successful_corrections - before.successful_corrections
                 df == stats.failed_corrections - before.failed_corrections
             IN /\ stats.total_cycles = before.total_cycles + 1
                /\ <<ds, df>> \in {<<1, 0>>, <<0, 1>>}
                /\ ds = 1 <=> ret
       /\ (pc = "returned" /\ call.op = "loop_reset")
          => /\ stats = Stats(0, 0, 0)
             /\ errors = NoErrors

\* A cycle that corrected its error (X and Z on qubit 3) has returned after
\* a cycle that failed.
C28_Witness ==
    /\ pc = "returned" /\ call.op = "run_cycle"
    /\ call.drawn = Errors({3}, {3})
    /\ call.cycle.correction = Correction(<<3>>, <<3>>)
    /\ ret = TRUE
    /\ call.stats_before = Stats(1, 0, 1)
    /\ stats = Stats(2, 1, 1)
    /\ errors = NoErrors

\* The reference contraction.  Two indices are in one group when they agree
\* on every bit that is not a target.
SameGroup(i, j, qs) ==
    \A b \in 0 .. num_qubits - 1 :
       b \in {qs[p] : p \in 1 .. Len(qs)} \/ Bit(i, b) = Bit(j, b)

\* The place of index i among the 2^k indices of its group, qs[1] being the
\* most significant local bit.
LocalIndex(i, qs) ==
    SumRange([p \in 1 .. Len(qs) |-> Bit(i, qs[p]) * Pow2(Len(qs) - p)], 1, Len(qs))

\* Each group's sub-vector multiplied by the matrix and written back.
Contraction(sv, g, qs) ==
    Canon([i \in Indices |->
              CSumRange([j \in Indices |->
                            IF SameGroup(i, j, qs)
                            THEN CMul(Entry(g, LocalIndex(i, qs), LocalIndex(j, qs)),
                                      sv.amp[j])
                            ELSE CZero],
                        0, dimension - 1)],
          g.den2 * sv.den2)

\* C24: for every state, every 2^k x 2^k gate and every ordered list of k
\* distinct in-range qubit indices, apply_gate produces the state of the
\* reference bit-group contraction, in which qubit_indices[0] is the most
\* significant local bit.
C24_MatchesContraction ==
    (/\ Returned("apply_gate")
     /\ ~BadIndices(call.qubits)
     /\ ~BadShape(Gate(call.gate), call.qubits))
    => /\ call.err = "none"
       /\ statevector = Contraction(call.pre, Gate(call.gate), call.qubits)

\* C26: apply_gate never makes the full D x D operator: on fewer target
\* qubits than the engine has, the arrays a call makes beside the amplitude
\* array hold fewer than D * D elements.
C26_NoFullOperator ==
    (/\ Returned("apply_gate")
     /\ call.err = "none"
     /\ Len(call.qubits) < num_qubits)
    => LET full_gate == expand_gate_to_full_space(Gate(call.gate), call.qubits)
       IN Cardinality(DOMAIN full_gate) * Cardinality(DOMAIN full_gate[0])
             < dimension * dimension

\* The targets of a call: the bits that qubit_indices names.
Targets(qs) == {qs[p] : p \in 1 .. Len(qs)}

\* C25: a successful apply_gate on target qubits S never mixes amplitudes
\* across groups: the new amplitude at index i is made of the old amplitudes
\* at the indices that agree with i on every bit outside S only, so a gate
\* applied to a basis state |i> leaves nonzero amplitudes only at indices
\* that agree with i outside S (also for targets that are not adjacent).
C25_NoMixingAcrossGroups ==
    (Returned("apply_gate") /\ call.err = "none")
    => LET g == Gate(call.gate)
           full_gate == expand_gate_to_full_space(g, call.qubits)
       IN /\ \A i, j \in Indices :
                ~SameGroup(i, j, call.qubits) => full_gate[i][j] = CZero
          /\ statevector = Dot(full_gate, g.den2, call.pre)
          /\ \A i \in Indices :
                IsBasisState(call.pre, i)
                => \A j \in Indices :
                      statevector.amp[j] # CZero => SameGroup(i, j, call.qubits)

\* CNOT was applied to the qubits 0 and 2 of the basis state |100>: the
\* amplitude moved to index 5, inside the group of index 4.
C25_Witness ==
    /\ Returned("apply_gate") /\ call.err = "none"
    /\ num_qubits >= 3
    /\ call.gate = "CNOT" /\ Targets(call.qubits) = {0, 2}
    /\ IsBasisState(call.pre, 4)
    /\ IsBasisState(statevector, 5)
    /\ SameGroup(4, 5, call.qubits) /\ ~SameGroup(4, 6, call.qubits)

\* C27: for every n-qubit device and every single-wire observable (PauliX,
\* PauliY, PauliZ, Identity, Hadamard) on any wire, the matrix the adapter
\* passes to get_expectation_value is 2^n x 2^n, so that expval completes
\* without a dimension mismatch, for n = 1 and for n > 1.
C27_ObservableFullDimension ==
    Returned("expval")
    => /\ call.obs_matrix.rows = dimension
       /\ call.obs_matrix.cols = dimension
       /\ call.err = "none"

\* C29 as claimed: between two QuantumCircuit.reset() calls, measure replays
\* the recorded gates into the engine at most once.
C29_ReplaysAtMostOnce == replays.started <= 1

\* C29, amended: between two QuantumCircuit.reset() calls at most one replay
\* by measure runs to its end, and _executed is set exactly from then on; a
\* measure call made with _executed set, or with no gates recorded, acts on
\* the engine's current state without reset or replay, whatever was recorded
\* since; a measure call made with gates recorded and _executed not set
\* resets and replays, and when the replay raises it leaves _executed unset.
C29_ReplayCompletesAtMostOnce ==
    /\ replays.completed <= 1
    /\ replays.completed <= replays.started
    /\ executed <=> replays.completed = 1
    /\ (Returned("circuit.measure") /\ InRange(call.qubits[1]))
       => IF call.executed_before \/ gates = <<>>
          THEN /\ call.err = "none"
               /\ statevector = measure(call.pre, call.qubits[1], call.u).sv
               /\ executed = call.executed_before
          ELSE LET e == execute(gates)
               IN IF e.err # "none"
                  THEN call.err = e.err /\ statevector = e.sv /\ ~executed
                  ELSE /\ statevector = measure(e.sv, call.qubits[1], call.u).sv
                       /\ executed

\* A measure call made after a completed replay, with two gates recorded,
\* has acted on the collapsed state: replaying the gates would have given
\* another state.
C29_Witness ==
    /\ Returned("circuit.measure") /\ InRange(call.qubits[1]) /\ call.err = "none"
    /\ call.executed_before /\ executed
    /\ replays = [started |-> 1, completed |-> 1]
    /\ Len(gates) = 2
    /\ call.pre # ZeroState
    /\ execute(gates).err = "none"
    /\ statevector # measure(execute(gates).sv, call.qubits[1], call.u).sv

\* Every index of every recorded entry is in [0, n).
RecordedInRange ==
    \A k \in 1 .. Len(gates) :
       \A j \in 1 .. Len(gates[k].qubits) : InRange(gates[k].qubits[j])

\* One apply call: with an index out of range it raises and leaves the gate
\* list as it was, otherwise it appends its entry; the engine's amplitudes
\* stay as they were.
ApplyStep ==
    Calls("circuit.apply")
    => /\ statevector' = statevector
       /\ IF \E j \in 1 .. Len(call'.qubits) : ~InRange(call'.qubits[j])
          THEN call'.err = "ValueError" /\ gates' = gates
          ELSE /\ call'.err = "none"
               /\ gates' = Append(gates, GateEntry(call'.gate, call'.qubits))

\* C30: in every reachable state of a QuantumCircuit every recorded entry
\* has all its qubit indices in [0, n); an apply call with an index out of
\* range raises and leaves the recorded list and the engine unchanged, and
\* apply never touches the engine's amplitudes.
C30_RecordedEntriesInRange == [](RecordedInRange) /\ [][ApplyStep]_vars

\* An apply call with the index n was rejected on a circuit that holds an
\* entry and whose engine has left the all-zero state.
C30_Witness ==
    /\ Returned("circuit.apply")
    /\ call.qubits = <<num_qubits>>
    /\ call.err = "ValueError"
    /\ Len(gates) = 1
    /\ statevector # ZeroState
    /\ statevector = call.pre
====
